---- MODULE Spec2Model ----
(***************************************************************************)
(* Access-control (ACL) engine of LibreChat in its stateless, in-memory    *)
(* form: the ACL entry store and its grant / revoke / modify / query       *)
(* methods (packages/data-schemas/src/methods/aclEntry.ts), the access     *)
(* role registry (accessRole.ts), the principal resolver (userGroup.ts)    *)
(* and the PermissionService facade (api/server/services).                 *)
(***************************************************************************)
EXTENDS Integers, Sequences, FiniteSets, TLC

\* calls: the calls of the engine's write methods that were started, each with
\* its position (suspended at its await, or returned) and what it returned.
\* userStore: the user records of user.ts.
\* promptStore, promptGroupStore: the prompt records of prompt.ts.
VARIABLES aclStore, accessRoleStore, groupStore, lastOp, calls, userStore,
          promptStore, promptGroupStore

vars == <<aclStore, accessRoleStore, groupStore, lastOp, calls, userStore,
          promptStore, promptGroupStore>>

-----------------------------------------------------------------------------
(* JavaScript values that are not strings or numbers. *)

NULL == "<null>"
UNDEF == "<undefined>"

\* !v for the values an id can take: null, undefined and '' are falsy.
Falsy(v) == v \in {NULL, UNDEF, ""}

\* String.prototype.trim on the strings the model draws.
Trim(s) == IF s = " " THEN "" ELSE s

-----------------------------------------------------------------------------
(* Enumerations of librechat-data-provider, as the sources use them. *)

USER == "user"
GROUP == "group"
ROLE == "role"
PUBLIC == "public"
PrincipalTypes == {USER, GROUP, ROLE, PUBLIC}

AGENT == "agent"
PROMPTGROUP == "promptGroup"
MCPSERVER == "mcpServer"
REMOTE_AGENT == "remoteAgent"
ResourceTypes == {AGENT, PROMPTGROUP, MCPSERVER, REMOTE_AGENT}

VIEW == 1
EDIT == 2
DELETE == 4
SHARE == 8

VIEWER == 1
EDITOR == 3
OWNER == 15

-----------------------------------------------------------------------------
(* Bit operations on permission masks (non-negative integers). *)

RECURSIVE BitAnd(_, _)
BitAnd(a, b) ==
  IF a = 0 \/ b = 0 THEN 0
  ELSE (a % 2) * (b % 2) + 2 * BitAnd(a \div 2, b \div 2)

RECURSIVE BitOr(_, _)
BitOr(a, b) ==
  IF a = 0 THEN b
  ELSE IF b = 0 THEN a
  ELSE (IF a % 2 = 1 \/ b % 2 = 1 THEN 1 ELSE 0) + 2 * BitOr(a \div 2, b \div 2)

\* a & ~m : the bits of a that are not in m.
BitClear(a, m) == a - BitAnd(a, m)

-----------------------------------------------------------------------------
(* Access role registry (accessRole.ts).  The registry is a Map keyed by    *)
(* accessRoleId; it is modelled as the sequence of its values in insertion  *)
(* order.  _id is the nanoid of the role: an opaque token, one per role.    *)

RoleRec(aid, t, bits) ==
  [accessRoleId |-> aid, _id |-> "oid:" \o aid, resourceType |-> t, permBits |-> bits]

defaultRoles ==
  << RoleRec("agent_viewer", AGENT, VIEWER),
     RoleRec("agent_editor", AGENT, EDITOR),
     RoleRec("agent_owner", AGENT, OWNER),
     RoleRec("promptGroup_viewer", PROMPTGROUP, VIEWER),
     RoleRec("promptGroup_editor", PROMPTGROUP, EDITOR),
     RoleRec("promptGroup_owner", PROMPTGROUP, OWNER),
     RoleRec("mcpServer_viewer", MCPSERVER, VIEWER),
     RoleRec("mcpServer_editor", MCPSERVER, EDITOR),
     RoleRec("mcpServer_owner", MCPSERVER, OWNER),
     RoleRec("remoteAgent_viewer", REMOTE_AGENT, VIEWER),
     RoleRec("remoteAgent_editor", REMOTE_AGENT, EDITOR),
     RoleRec("remoteAgent_owner", REMOTE_AGENT, OWNER) >>

Range(seq) == {seq[i] : i \in 1..Len(seq)}

\* accessRoleStore.has(accessRoleId)
HasRole(roles, aid) == \E r \in Range(roles) : r.accessRoleId = aid

\* findRoleByIdentifier: accessRoleStore.get(accessRoleId) || null
findRoleByIdentifier(roles, aid) ==
  IF HasRole(roles, aid)
    THEN CHOOSE r \in Range(roles) : r.accessRoleId = aid
    ELSE NULL

\* findRolesByResourceType, AccessRole.find({ resourceType }): the roles of
\* one type, in insertion order.
findRolesByResourceType(roles, t) ==
  SelectSeq(roles, LAMBDA r : r.resourceType = t)

\* The value returned where the code returns null instead of a role.
NoRole == [accessRoleId |-> NULL, _id |-> NULL, resourceType |-> NULL, permBits |-> 0]

\* Position of the role stored under the key aid, 0 when there is none.
RoleIndex(roles, aid) ==
  IF HasRole(roles, aid)
    THEN CHOOSE i \in 1..Len(roles) : roles[i].accessRoleId = aid
    ELSE 0

\* createRole: { _id: nanoid(), ...roleData } is set under roleData.accessRoleId;
\* Map.set replaces the value of a key that exists and keeps its position.
createRole(roles, aid, t, bits, id) ==
  LET newRole == [accessRoleId |-> aid, _id |-> id, resourceType |-> t, permBits |-> bits]
  IN IF HasRole(roles, aid)
       THEN [roles EXCEPT ![RoleIndex(roles, aid)] = newRole]
       ELSE Append(roles, newRole)

\* findRoleByPermissions: the first role, in insertion order, of the type with
\* exactly these bits.
findRoleByPermissions(roles, t, bits) ==
  LET hits == SelectSeq(roles, LAMBDA r : r.resourceType = t /\ r.permBits = bits)
  IN IF hits = << >> THEN NoRole ELSE hits[1]

\* One step of the stable sort by descending permBits: r goes behind every
\* role that has at least its bits.
InsertDesc(sorted, r) ==
  LET ahead == SelectSeq(sorted, LAMBDA s : s.permBits >= r.permBits)
      behind == SelectSeq(sorted, LAMBDA s : s.permBits < r.permBits)
  IN ahead \o <<r>> \o behind

RECURSIVE SortDesc(_, _, _)
SortDesc(roles, i, acc) ==
  IF i > Len(roles) THEN acc
  ELSE SortDesc(roles, i + 1, InsertDesc(acc, roles[i]))

\* A fallback that takes the role with the most bits, whatever the mask.
getRoleForPermissions_Highest(roles, t, bits) ==
  LET exactMatch == findRoleByPermissions(roles, t, bits)
      sorted == SortDesc(findRolesByResourceType(roles, t), 1, << >>)
  IN IF exactMatch # NoRole THEN exactMatch
     ELSE IF sorted = << >> THEN NoRole ELSE sorted[1]

\* getRoleForPermissions: the exact match, else the first role of the type,
\* by descending permBits, with (role.permBits & permBits) === role.permBits.
getRoleForPermissions(roles, t, bits) ==
  LET exactMatch == findRoleByPermissions(roles, t, bits)
      sorted == SortDesc(findRolesByResourceType(roles, t), 1, << >>)
      fits == SelectSeq(sorted, LAMBDA r : BitAnd(r.permBits, bits) = r.permBits)
  IN IF exactMatch # NoRole THEN exactMatch
     ELSE IF fits = << >> THEN NoRole ELSE fits[1]

\* A seeding that installs every default role, present or not.
RECURSIVE SeedFrom_Always(_, _)
SeedFrom_Always(roles, i) ==
  IF i > Len(defaultRoles) THEN roles
  ELSE SeedFrom_Always(Append(roles, defaultRoles[i]), i + 1)

\* seedDefaultRoles, the loop over defaultRoles: a role is created when the
\* registry has no role under its accessRoleId.
RECURSIVE SeedFrom(_, _)
SeedFrom(roles, i) ==
  IF i > Len(defaultRoles) THEN roles
  ELSE IF HasRole(roles, defaultRoles[i].accessRoleId)
    THEN SeedFrom(roles, i + 1)
    ELSE SeedFrom(Append(roles, defaultRoles[i]), i + 1)

\* The object seedDefaultRoles returns: for each default accessRoleId the role
\* the registry holds under it when the loop has run.
SeedResult(roles) ==
  [aid \in {defaultRoles[i].accessRoleId : i \in 1..Len(defaultRoles)} |->
     roles[RoleIndex(roles, aid)]]

-----------------------------------------------------------------------------
(* Principal resolver (userGroup.ts).  groupStore is the sequence of the    *)
(* groups of the Map in insertion order, each [_id, memberIds].             *)

\* A lookup that finds no group of the user.
findGroupsByMemberId_None(groups, userId) ==
  SelectSeq(groups, LAMBDA g : FALSE)

findGroupsByMemberId(groups, userId) ==
  SelectSeq(groups, LAMBDA g : userId \in Range(g.memberIds))

\* A lookup that counts every group for every user.
getUserGroups_All(groups, userId) == groups

getUserGroups(groups, userId) == findGroupsByMemberId(groups, userId)

PrincipalRec(t, id) == [principalType |-> t, principalId |-> id]

\* A test of the role that does not trim it.
RoleGiven_NoTrim(role) == ~Falsy(role)

\* role && role.trim()
RoleGiven(role) == ~Falsy(role) /\ ~Falsy(Trim(role))

\* A resolver that leaves the PUBLIC principal out.
getUserPrincipals_NoPublic(groups, userId, role) ==
  LET ug == getUserGroups(groups, userId) IN
    << PrincipalRec(USER, userId) >>
    \o (IF RoleGiven(role) THEN << PrincipalRec(ROLE, role) >> ELSE << >>)
    \o [i \in 1..Len(ug) |-> PrincipalRec(GROUP, ug[i]._id)]

getUserPrincipals(groups, userId, role) ==
  LET ug == getUserGroups(groups, userId) IN
    << PrincipalRec(USER, userId) >>
    \o (IF RoleGiven(role) THEN << PrincipalRec(ROLE, role) >> ELSE << >>)
    \o [i \in 1..Len(ug) |-> PrincipalRec(GROUP, ug[i]._id)]
    \o << PrincipalRec(PUBLIC, UNDEF) >>

-----------------------------------------------------------------------------
(* ACL entry store (aclEntry.ts).  aclStore is the sequence of the entries  *)
(* of the Map in insertion order; an entry's position stands for its _id.   *)

EntryRec(pt, pid, rt, rid, bits, by, at, roleId) ==
  [principalType |-> pt, principalId |-> pid, resourceType |-> rt,
   resourceId |-> rid, permBits |-> bits, grantedBy |-> by,
   grantedAt |-> at, roleId |-> roleId]

\* The filter objects the callers build hold plain values only, compared
\* with !== against the entry's field of the same name.
MatchesFilter(e, filter) == \A k \in DOMAIN filter : e[k] = filter[k]

findAclEntries(store, filter) ==
  SelectSeq(store, LAMBDA e : MatchesFilter(e, filter))

TupleFilter(pt, pid, rt, rid) ==
  [principalType |-> pt, principalId |-> pid, resourceType |-> rt, resourceId |-> rid]

\* deleteManyAclEntries: the store without the entries the filter finds.
deleteManyAclEntries(store, filter) ==
  [store |-> SelectSeq(store, LAMBDA e : ~MatchesFilter(e, filter)),
   deletedCount |-> Len(findAclEntries(store, filter))]

\* Index of the first entry the filter finds, 0 when there is none.
FirstIndex(store, filter) ==
  IF \E i \in 1..Len(store) : MatchesFilter(store[i], filter)
    THEN CHOOSE i \in 1..Len(store) :
           /\ MatchesFilter(store[i], filter)
           /\ \A j \in 1..(i - 1) : ~MatchesFilter(store[j], filter)
    ELSE 0

RemoveAt(store, i) == [j \in 1..(Len(store) - 1) |-> IF j < i THEN store[j] ELSE store[j + 1]]

\* findOneAndDeleteAclEntry: deletes entries[0] when there is one.
findOneAndDeleteAclEntry(store, filter) ==
  LET i == FirstIndex(store, filter) IN
    IF i = 0 THEN store ELSE RemoveAt(store, i)

\* A match in which PUBLIC entries match whatever the list holds.
PrincipalMatches_PublicAlways(e, principals) ==
  \/ e.principalType = PUBLIC
  \/ \E i \in 1..Len(principals) :
       /\ e.principalType = principals[i].principalType
       /\ e.principalId = principals[i].principalId

\* principalsList.some(...) of the query methods.
PrincipalMatches(e, principals) ==
  \E i \in 1..Len(principals) :
    IF principals[i].principalType = PUBLIC
      THEN e.principalType = PUBLIC
      ELSE /\ e.principalType = principals[i].principalType
           /\ e.principalId = principals[i].principalId

findEntriesByPrincipalsAndResource(store, principals, rt, rid) ==
  SelectSeq(store, LAMBDA e :
    /\ ~(e.resourceType # rt \/ e.resourceId # rid)
    /\ PrincipalMatches(e, principals))

\* A check that is satisfied by any one of the required bits.
hasPermission_AnyBit(store, principals, rt, rid, permissionBit) ==
  LET entries == findEntriesByPrincipalsAndResource(store, principals, rt, rid) IN
    \E i \in 1..Len(entries) :
      BitAnd(entries[i].permBits, permissionBit) # 0

hasPermission(store, principals, rt, rid, permissionBit) ==
  LET entries == findEntriesByPrincipalsAndResource(store, principals, rt, rid) IN
    \E i \in 1..Len(entries) :
      BitAnd(entries[i].permBits, permissionBit) = permissionBit

RECURSIVE OrBits(_, _, _)
OrBits(entries, i, acc) ==
  IF i > Len(entries) THEN acc
  ELSE OrBits(entries, i + 1, BitOr(acc, entries[i].permBits))

\* An effective mask taken from the first matching entry only.
getEffectivePermissionsACL_First(store, principals, rt, rid) ==
  LET entries == findEntriesByPrincipalsAndResource(store, principals, rt, rid)
  IN IF entries = << >> THEN 0 ELSE entries[1].permBits

getEffectivePermissionsACL(store, principals, rt, rid) ==
  OrBits(findEntriesByPrincipalsAndResource(store, principals, rt, rid), 1, 0)

\* A search satisfied by any one of the required bits.
findAccessibleResourcesACL_AnyBit(store, principals, rt, requiredPermBit) ==
  LET Matching(e) ==
        /\ e.resourceType = rt
        /\ BitAnd(e.permBits, requiredPermBit) # 0
        /\ PrincipalMatches(e, principals)
      entries == SelectSeq(store, Matching)
  IN [k \in 1..Len(entries) |-> entries[k].resourceId]

\* accessibleResourceIds.add(entry.resourceId) over the matching entries.
RECURSIVE AddResourceIds(_, _, _)
AddResourceIds(entries, i, acc) ==
  IF i > Len(entries) THEN acc
  ELSE AddResourceIds(entries, i + 1,
         IF entries[i].resourceId \in Range(acc) THEN acc
         ELSE Append(acc, entries[i].resourceId))

\* findAccessibleResources of aclEntry.ts: Array.from of the Set of the
\* resourceIds of the matching entries, in insertion order.
findAccessibleResourcesACL(store, principals, rt, requiredPermBit) ==
  AddResourceIds(
    SelectSeq(store, LAMBDA e :
      /\ ~(e.resourceType # rt \/ BitAnd(e.permBits, requiredPermBit) # requiredPermBit)
      /\ PrincipalMatches(e, principals)),
    1, << >>)

\* A loop that overwrites the bits of a resourceId instead of merging them.
RECURSIVE MapBits_Overwrite(_, _, _)
MapBits_Overwrite(entries, i, map) ==
  IF i > Len(entries) THEN map
  ELSE LET rid == entries[i].resourceId
       IN MapBits_Overwrite(entries, i + 1,
                  [r \in (DOMAIN map) \cup {rid} |->
                     IF r = rid THEN entries[i].permBits ELSE map[r]])

\* The permissionsMap loop: currentBits | entry.permBits per resourceId.
RECURSIVE MapBits(_, _, _)
MapBits(entries, i, map) ==
  IF i > Len(entries) THEN map
  ELSE LET rid == entries[i].resourceId
           currentBits == IF rid \in DOMAIN map THEN map[rid] ELSE 0
       IN MapBits(entries, i + 1,
                  [r \in (DOMAIN map) \cup {rid} |->
                     IF r = rid THEN BitOr(currentBits, entries[i].permBits) ELSE map[r]])

\* getEffectivePermissionsForResources of aclEntry.ts; the Map is a function
\* from the resourceIds it holds to their bits.
getEffectivePermissionsForResources(store, principals, rt, resourceIds) ==
  IF Len(resourceIds) = 0 THEN << >>
  ELSE MapBits(
         SelectSeq(store, LAMBDA e :
           /\ ~(e.resourceType # rt \/ e.resourceId \notin Range(resourceIds))
           /\ PrincipalMatches(e, principals)),
         1, << >>)

-----------------------------------------------------------------------------
(* Grant engine (aclEntry.ts): each operator gives the store after the call *)
(* and what the call returns.                                               *)

\* A grant that merges the new bits into the bits of an existing entry.
grantPermissionACL_Or(store, pt, pid, rt, rid, permBits, grantedBy, roleId, now) ==
  LET i == FirstIndex(store, TupleFilter(pt, pid, rt, rid)) IN
    IF i # 0
      THEN [store |-> [store EXCEPT ![i] =
                        [@ EXCEPT !.permBits = BitOr(@, permBits),
                                  !.grantedBy = grantedBy,
                                  !.grantedAt = now,
                                  !.roleId = IF ~Falsy(roleId) THEN roleId ELSE @]],
            created |-> FALSE,
            index |-> i]
      ELSE [store |-> Append(store,
                        EntryRec(pt, pid, rt, rid, permBits, grantedBy, now, roleId)),
            created |-> TRUE,
            index |-> Len(store) + 1]

\* A grant that looks the entry up by resource alone.
grantPermissionACL_AnyPrincipal(store, pt, pid, rt, rid, permBits, grantedBy, roleId, now) ==
  LET i == FirstIndex(store, [resourceType |-> rt, resourceId |-> rid]) IN
    IF i # 0
      THEN [store |-> [store EXCEPT ![i] =
                        [@ EXCEPT !.permBits = permBits,
                                  !.grantedBy = grantedBy,
                                  !.grantedAt = now,
                                  !.roleId = IF ~Falsy(roleId) THEN roleId ELSE @]],
            created |-> FALSE,
            index |-> i]
      ELSE [store |-> Append(store,
                        EntryRec(pt, pid, rt, rid, permBits, grantedBy, now, roleId)),
            created |-> TRUE,
            index |-> Len(store) + 1]

\* grantPermission of aclEntry.ts; `now` is the value of new Date().
grantPermissionACL(store, pt, pid, rt, rid, permBits, grantedBy, roleId, now) ==
  LET i == FirstIndex(store, TupleFilter(pt, pid, rt, rid)) IN
    IF i # 0
      THEN [store |-> [store EXCEPT ![i] =
                        [@ EXCEPT !.permBits = permBits,
                                  !.grantedBy = grantedBy,
                                  !.grantedAt = now,
                                  !.roleId = IF ~Falsy(roleId) THEN roleId ELSE @]],
            created |-> FALSE,
            index |-> i]
      ELSE [store |-> Append(store,
                        EntryRec(pt, pid, rt, rid, permBits, grantedBy, now, roleId)),
            created |-> TRUE,
            index |-> Len(store) + 1]

\* A revoke whose filter leaves out the resourceId.
revokePermission_AnyResource(store, pt, pid, rt, rid) ==
  deleteManyAclEntries(store,
    [principalType |-> pt, principalId |-> pid, resourceType |-> rt])

\* revokePermission of aclEntry.ts
revokePermission(store, pt, pid, rt, rid) ==
  deleteManyAclEntries(store, TupleFilter(pt, pid, rt, rid))

\* A modify that removes before it adds.
modifyPermissionBits_RemoveFirst(store, pt, pid, rt, rid, addBits, removeBits) ==
  LET i == FirstIndex(store, TupleFilter(pt, pid, rt, rid)) IN
    IF i = 0
      THEN [store |-> store, found |-> FALSE, index |-> 0]
      ELSE LET b0 == store[i].permBits
               b1 == IF removeBits # 0 THEN BitClear(b0, removeBits) ELSE b0
               b2 == IF addBits # 0 THEN BitOr(b1, addBits) ELSE b1
           IN [store |-> [store EXCEPT ![i].permBits = b2],
               found |-> TRUE,
               index |-> i]

\* A modify that also drops the entry's roleId.
modifyPermissionBits_ClearRole(store, pt, pid, rt, rid, addBits, removeBits) ==
  LET i == FirstIndex(store, TupleFilter(pt, pid, rt, rid)) IN
    IF i = 0
      THEN [store |-> store, found |-> FALSE, index |-> 0]
      ELSE LET b0 == store[i].permBits
               b1 == IF addBits # 0 THEN BitOr(b0, addBits) ELSE b0
               b2 == IF removeBits # 0 THEN BitClear(b1, removeBits) ELSE b1
           IN [store |-> [store EXCEPT ![i].permBits = b2, ![i].roleId = UNDEF],
               found |-> TRUE,
               index |-> i]

\* modifyPermissionBits of aclEntry.ts; a falsy addBits / removeBits (null,
\* undefined, 0) skips its step.  found = FALSE stands for the null it returns.
modifyPermissionBits(store, pt, pid, rt, rid, addBits, removeBits) ==
  LET i == FirstIndex(store, TupleFilter(pt, pid, rt, rid)) IN
    IF i = 0
      THEN [store |-> store, found |-> FALSE, index |-> 0]
      ELSE LET b0 == store[i].permBits
               b1 == IF addBits # 0 THEN BitOr(b0, addBits) ELSE b0
               b2 == IF removeBits # 0 THEN BitClear(b1, removeBits) ELSE b1
           IN [store |-> [store EXCEPT ![i].permBits = b2],
               found |-> TRUE,
               index |-> i]

-----------------------------------------------------------------------------
(* PermissionService facade (PermissionService.js). *)

validateResourceType(rt) == rt \in ResourceTypes

\* The checks without the comparison of the role's resourceType.
grantPermissionError_AnyRoleType(roles, pt, pid, rt, rid, accessRoleId) ==
  IF pt \notin PrincipalTypes THEN "Invalid principal type"
  ELSE IF pt # PUBLIC /\ Falsy(pid) THEN "Principal ID is required"
  ELSE IF ~Falsy(pid) /\ pt = ROLE /\ Falsy(Trim(pid)) THEN "Invalid role ID"
  ELSE IF Falsy(rid) THEN "Invalid resource ID"
  ELSE IF ~validateResourceType(rt) THEN "Invalid resourceType"
  ELSE IF ~HasRole(roles, accessRoleId) THEN "Role not found"
  ELSE ""

\* The checks of PermissionService.grantPermission, in the order of the code:
\* the message of the first error thrown, "" when none is.
grantPermissionError(roles, pt, pid, rt, rid, accessRoleId) ==
  IF pt \notin PrincipalTypes THEN "Invalid principal type"
  ELSE IF pt # PUBLIC /\ Falsy(pid) THEN "Principal ID is required"
  ELSE IF ~Falsy(pid) /\ pt = ROLE /\ Falsy(Trim(pid)) THEN "Invalid role ID"
  ELSE IF Falsy(rid) THEN "Invalid resource ID"
  ELSE IF ~validateResourceType(rt) THEN "Invalid resourceType"
  ELSE IF ~HasRole(roles, accessRoleId) THEN "Role not found"
  ELSE IF findRoleByIdentifier(roles, accessRoleId).resourceType # rt
    THEN "Role is for other resources"
  ELSE ""

\* PermissionService.grantPermission: throws (store unchanged) or upserts
\* with the role's permBits and _id.
grantPermission(store, roles, pt, pid, rt, rid, accessRoleId, grantedBy, now) ==
  LET err == grantPermissionError(roles, pt, pid, rt, rid, accessRoleId) IN
    IF err # ""
      THEN [store |-> store, threw |-> TRUE, error |-> err,
            created |-> FALSE, index |-> 0]
      ELSE LET role == findRoleByIdentifier(roles, accessRoleId)
               g == grantPermissionACL(store, pt, pid, rt, rid,
                                       role.permBits, grantedBy, role._id, now)
           IN [store |-> g.store, threw |-> FALSE, error |-> "",
               created |-> g.created, index |-> g.index]

\* The checks of AccessControlService.grantPermission, in the order of the
\* code: the message of the first error thrown, "" when none is.
accessControlGrantPermissionError(roles, pt, pid, rt, rid, accessRoleId) ==
  IF pt \notin PrincipalTypes THEN "Invalid principal type"
  ELSE IF pt # PUBLIC /\ Falsy(pid) THEN "Principal ID is required"
  ELSE IF ~Falsy(pid) /\ pt = ROLE /\ Falsy(Trim(pid)) THEN "Invalid role ID"
  ELSE IF ~validateResourceType(rt) THEN "Invalid resourceType"
  ELSE IF ~HasRole(roles, accessRoleId) THEN "Role not found"
  ELSE IF findRoleByIdentifier(roles, accessRoleId).resourceType # rt
    THEN "Role is for other resources"
  ELSE ""

\* AccessControlService.grantPermission: throws (store unchanged) or calls the
\* engine's grantPermission with six arguments, roleId left undefined.
accessControlGrantPermission(store, roles, pt, pid, rt, rid, accessRoleId, grantedBy, now) ==
  LET err == accessControlGrantPermissionError(roles, pt, pid, rt, rid, accessRoleId) IN
    IF err # ""
      THEN [store |-> store, threw |-> TRUE, error |-> err,
            created |-> FALSE, index |-> 0]
      ELSE LET role == findRoleByIdentifier(roles, accessRoleId)
               g == grantPermissionACL(store, pt, pid, rt, rid,
                                       role.permBits, grantedBy, UNDEF, now)
           IN [store |-> g.store, threw |-> FALSE, error |-> "",
               created |-> g.created, index |-> g.index]

\* An iteration that drops an item with an unknown accessRoleId unreported.
BulkUpdateOne_DropUnknown(acc, principal, rolesOfType, rt, rid, grantedBy, now) ==
  IF Falsy(principal.accessRoleId)
    THEN [acc EXCEPT !.errors = Append(@, principal)]
  ELSE IF ~HasRole(rolesOfType, principal.accessRoleId)
    THEN acc
  ELSE LET role == findRoleByIdentifier(rolesOfType, principal.accessRoleId)
           g == grantPermissionACL(acc.store, principal.type, principal.id, rt, rid,
                                   role.permBits, grantedBy, role._id, now)
       IN [acc EXCEPT !.store = g.store,
                      !.granted = Append(@, principal)]

\* One iteration of the updatedPrincipals loop of bulkUpdateResourcePermissions.
\* acc = [store, granted, revoked, errors]; rolesOfType is the rolesMap.
BulkUpdateOne(acc, principal, rolesOfType, rt, rid, grantedBy, now) ==
  IF Falsy(principal.accessRoleId)
    THEN [acc EXCEPT !.errors = Append(@, principal)]
  ELSE IF ~HasRole(rolesOfType, principal.accessRoleId)
    THEN [acc EXCEPT !.errors = Append(@, principal)]
  ELSE LET role == findRoleByIdentifier(rolesOfType, principal.accessRoleId)
           g == grantPermissionACL(acc.store, principal.type, principal.id, rt, rid,
                                   role.permBits, grantedBy, role._id, now)
       IN [acc EXCEPT !.store = g.store,
                      !.granted = Append(@, principal)]

\* One iteration of the revokedPrincipals loop.
BulkRevokeOne(acc, principal, rt, rid) ==
  [acc EXCEPT !.store = findOneAndDeleteAclEntry(@,
                          TupleFilter(principal.type, principal.id, rt, rid)),
              !.revoked = Append(@, principal)]

RECURSIVE BulkUpdateLoop(_, _, _, _, _, _, _, _)
BulkUpdateLoop(acc, updated, i, rolesOfType, rt, rid, grantedBy, now) ==
  IF i > Len(updated) THEN acc
  ELSE BulkUpdateLoop(BulkUpdateOne(acc, updated[i], rolesOfType, rt, rid, grantedBy, now),
                      updated, i + 1, rolesOfType, rt, rid, grantedBy, now)

RECURSIVE BulkRevokeLoop(_, _, _, _, _)
BulkRevokeLoop(acc, revoked, i, rt, rid) ==
  IF i > Len(revoked) THEN acc
  ELSE BulkRevokeLoop(BulkRevokeOne(acc, revoked[i], rt, rid), revoked, i + 1, rt, rid)

\* bulkUpdateResourcePermissions: throws on a falsy resourceId, else runs the
\* two loops in order and returns {granted, updated, revoked, errors}.
bulkUpdateResourcePermissions(store, roles, rt, rid, updated, revoked, grantedBy, now) ==
  IF Falsy(rid)
    THEN [store |-> store, threw |-> TRUE,
          granted |-> << >>, revoked |-> << >>, errors |-> << >>]
    ELSE LET rolesOfType == findRolesByResourceType(roles, rt)
             acc0 == [store |-> store, granted |-> << >>, revoked |-> << >>,
                      errors |-> << >>]
             acc1 == BulkUpdateLoop(acc0, updated, 1, rolesOfType, rt, rid, grantedBy, now)
             acc2 == BulkRevokeLoop(acc1, revoked, 1, rt, rid)
         IN [store |-> acc2.store, threw |-> FALSE,
             granted |-> acc2.granted, revoked |-> acc2.revoked,
             errors |-> acc2.errors]

\* A cleanup that deletes one entry of the resource only.
removeAllPermissions_First(store, rt, rid) ==
  IF ~validateResourceType(rt) \/ Falsy(rid)
    THEN [store |-> store, threw |-> TRUE, deletedCount |-> 0]
    ELSE LET d == findOneAndDeleteAclEntry(store, [resourceType |-> rt, resourceId |-> rid])
         IN [store |-> d, threw |-> FALSE, deletedCount |-> Len(store) - Len(d)]

\* PermissionService.removeAllPermissions
removeAllPermissions(store, rt, rid) ==
  IF ~validateResourceType(rt) \/ Falsy(rid)
    THEN [store |-> store, threw |-> TRUE, deletedCount |-> 0]
    ELSE LET d == deleteManyAclEntries(store, [resourceType |-> rt, resourceId |-> rid])
         IN [store |-> d.store, threw |-> FALSE, deletedCount |-> d.deletedCount]

\* PermissionService.checkPermission: "throw" for a bad mask, FALSE for any
\* other error (fail closed), else hasPermission over the resolved principals.
checkPermission(store, groups, userId, role, rt, rid, requiredPermission, fault) ==
  IF requiredPermission < 1 THEN [threw |-> TRUE, ret |-> FALSE]
  ELSE IF ~validateResourceType(rt) THEN [threw |-> FALSE, ret |-> FALSE]
  ELSE IF fault THEN [threw |-> FALSE, ret |-> FALSE]
  ELSE LET principals == getUserPrincipals(groups, userId, role) IN
    IF Len(principals) = 0 THEN [threw |-> FALSE, ret |-> FALSE]
    ELSE [threw |-> FALSE,
          ret |-> hasPermission(store, principals, rt, rid, requiredPermission)]

\* PermissionService.getEffectivePermissions: 0 for any error.
getEffectivePermissions(store, groups, userId, role, rt, rid, fault) ==
  IF ~validateResourceType(rt) THEN 0
  ELSE IF fault THEN 0
  ELSE LET principals == getUserPrincipals(groups, userId, role) IN
    IF Len(principals) = 0 THEN 0
    ELSE getEffectivePermissionsACL(store, principals, rt, rid)

\* PermissionService.getResourcePermissionsMap: validateResourceType runs
\* outside the try, and the catch logs and rethrows.
getResourcePermissionsMap(store, groups, userId, role, rt, resourceIds, fault) ==
  IF ~validateResourceType(rt) THEN [threw |-> TRUE, ret |-> << >>]
  ELSE IF Len(resourceIds) = 0 THEN [threw |-> FALSE, ret |-> << >>]
  ELSE IF fault THEN [threw |-> TRUE, ret |-> << >>]
  ELSE [threw |-> FALSE,
        ret |-> getEffectivePermissionsForResources(
                  store, getUserPrincipals(groups, userId, role), rt, resourceIds)]

\* PermissionService.findAccessibleResources: throws for a bad mask, [] for
\* any other error.
findAccessibleResources(store, groups, userId, role, rt, requiredPermissions, fault) ==
  IF requiredPermissions < 1 THEN [threw |-> TRUE, ret |-> << >>]
  ELSE IF ~validateResourceType(rt) THEN [threw |-> FALSE, ret |-> << >>]
  ELSE IF fault THEN [threw |-> FALSE, ret |-> << >>]
  ELSE LET principalsList == getUserPrincipals(groups, userId, role) IN
    IF Len(principalsList) = 0 THEN [threw |-> FALSE, ret |-> << >>]
    ELSE [threw |-> FALSE,
          ret |-> findAccessibleResourcesACL(store, principalsList, rt, requiredPermissions)]

\* PermissionService.findPubliclyAccessibleResources: AclEntry.find with
\* permBits: requiredPermissions, then the Set of the resourceIds.
findPubliclyAccessibleResources(store, rt, requiredPermissions, fault) ==
  IF requiredPermissions < 1 THEN [threw |-> TRUE, ret |-> << >>]
  ELSE IF ~validateResourceType(rt) THEN [threw |-> FALSE, ret |-> << >>]
  ELSE IF fault THEN [threw |-> FALSE, ret |-> << >>]
  ELSE [threw |-> FALSE,
        ret |-> AddResourceIds(
                  findAclEntries(store, [principalType |-> PUBLIC, resourceType |-> rt,
                                         permBits |-> requiredPermissions]),
                  1, << >>)]

\* PermissionService.hasPublicPermission
hasPublicPermission(store, rt, rid, requiredPermissions, fault) ==
  IF requiredPermissions < 1 THEN [threw |-> TRUE, ret |-> FALSE]
  ELSE IF ~validateResourceType(rt) THEN [threw |-> FALSE, ret |-> FALSE]
  ELSE IF fault THEN [threw |-> FALSE, ret |-> FALSE]
  ELSE LET entries == findEntriesByPrincipalsAndResource(
                        store, << PrincipalRec(PUBLIC, UNDEF) >>, rt, rid)
       IN [threw |-> FALSE,
           ret |-> \E i \in 1..Len(entries) :
                     BitAnd(entries[i].permBits, requiredPermissions) = requiredPermissions]

-----------------------------------------------------------------------------
(* Bounds and inputs of the calls.  Every action draws its arguments from   *)
(* an input profile I, a record of small sets; each specification below     *)
(* runs all of its actions over one profile.                                *)

MaxEntries == 2
MaxBulkEntries == 3
MaxCalls == 3

\* principals of a bulk update: {type, id, accessRoleId}.
BulkPrincipal(p, aid) == [type |-> p[1], id |-> p[2], accessRoleId |-> aid]

\* new Date() never runs backwards: no stored grantedAt is later than now.
ClockAt(now) == \A i \in 1..Len(aclStore) : aclStore[i].grantedAt <= now

\* lastOp records the latest call: its arguments, what it returned and
\* whether it changed a store.  A call that changed nothing is recorded and
\* not explored further: the calls that can follow it are exactly those that
\* can follow the state it was made in.
Live == lastOp.changed

-----------------------------------------------------------------------------
(* State machine. *)

Init ==
  /\ aclStore = << >>
  /\ accessRoleStore = << >>
  /\ groupStore = << >>
  /\ lastOp = [op |-> "init", changed |-> TRUE]
  /\ calls = << >>
  /\ userStore = << >>
  /\ promptStore = << >>
  /\ promptGroupStore = << >>

SeedDefaultRoles ==
  /\ Live
  /\ accessRoleStore' = SeedFrom(accessRoleStore, 1)
  /\ lastOp' = [op |-> "seedDefaultRoles", changed |-> accessRoleStore' # accessRoleStore,
                ret |-> SeedResult(accessRoleStore')]
  /\ UNCHANGED <<aclStore, groupStore, calls, userStore, promptStore, promptGroupStore>>

\* createGroup: the nanoid is drawn from I.groupIds.
CreateGroup(I) ==
  \E g \in I.groupIds :
    /\ Live
    /\ \A i \in 1..Len(groupStore) : groupStore[i]._id # g
    /\ groupStore' = Append(groupStore, [_id |-> g, memberIds |-> << >>])
    /\ lastOp' = [op |-> "createGroup", changed |-> TRUE]
    /\ UNCHANGED <<aclStore, accessRoleStore, calls, userStore, promptStore, promptGroupStore>>

AddUserToGroup(I) ==
  \E u \in I.members, i \in 1..Len(groupStore) :
    /\ Live
    /\ groupStore' =
         IF u \in Range(groupStore[i].memberIds)
           THEN groupStore
           ELSE [groupStore EXCEPT ![i].memberIds = Append(@, u)]
    /\ lastOp' = [op |-> "addUserToGroup", userId |-> u, groupId |-> groupStore[i]._id,
                  changed |-> groupStore' # groupStore]
    /\ UNCHANGED <<aclStore, accessRoleStore, calls, userStore, promptStore, promptGroupStore>>

RemoveUserFromGroup(I) ==
  \E u \in I.members, i \in 1..Len(groupStore) :
    /\ Live
    /\ groupStore' = [groupStore EXCEPT ![i].memberIds = SelectSeq(@, LAMBDA m : m # u)]
    /\ lastOp' = [op |-> "removeUserFromGroup", userId |-> u, groupId |-> groupStore[i]._id,
                  changed |-> groupStore' # groupStore]
    /\ UNCHANGED <<aclStore, accessRoleStore, calls, userStore, promptStore, promptGroupStore>>

\* PermissionService.grantPermission
GrantPermission(I) ==
  \E p \in I.principals, r \in I.resources, aid \in I.accessRoleIds,
     by \in I.grantedBys, now \in I.times :
    LET g == grantPermission(aclStore, accessRoleStore, p[1], p[2], r[1], r[2], aid, by, now)
        old == IF g.threw \/ g.created THEN 0 ELSE aclStore[g.index].permBits
    IN /\ Live
       /\ Len(g.store) <= I.maxEntries
       /\ ClockAt(now)
       /\ aclStore' = g.store
       /\ lastOp' = [op |-> "grantPermission", pt |-> p[1], pid |-> p[2],
                     rt |-> r[1], rid |-> r[2], accessRoleId |-> aid,
                     grantedBy |-> by, now |-> now, threw |-> g.threw,
                     created |-> g.created, index |-> g.index, old |-> old,
                     changed |-> g.store # aclStore]
       /\ UNCHANGED <<accessRoleStore, groupStore, calls, userStore, promptStore, promptGroupStore>>

\* grantPermission of aclEntry.ts called directly
GrantPermissionACL(I) ==
  \E p \in I.enginePrincipals, r \in I.engineResources, bits \in I.engineBits,
     by \in I.grantedBys, roleId \in I.engineRoleIds, now \in I.times :
    LET g == grantPermissionACL(aclStore, p[1], p[2], r[1], r[2], bits, by, roleId, now)
        old == IF g.created THEN 0 ELSE aclStore[g.index].permBits
    IN /\ Live
       /\ Len(g.store) <= I.maxEntries
       /\ ClockAt(now)
       /\ aclStore' = g.store
       /\ lastOp' = [op |-> "grantPermissionACL", pt |-> p[1], pid |-> p[2],
                     rt |-> r[1], rid |-> r[2], permBits |-> bits, roleId |-> roleId,
                     grantedBy |-> by, now |-> now, threw |-> FALSE,
                     created |-> g.created, index |-> g.index, old |-> old,
                     changed |-> g.store # aclStore]
       /\ UNCHANGED <<accessRoleStore, groupStore, calls, userStore, promptStore, promptGroupStore>>

RevokePermission(I) ==
  \E p \in I.storedPrincipals, r \in I.engineResources :
    LET d == revokePermission(aclStore, p[1], p[2], r[1], r[2]) IN
      /\ Live
      /\ aclStore' = d.store
      /\ lastOp' = [op |-> "revokePermission", pt |-> p[1], pid |-> p[2],
                    rt |-> r[1], rid |-> r[2], threw |-> FALSE,
                    deletedCount |-> d.deletedCount, changed |-> d.store # aclStore]
      /\ UNCHANGED <<accessRoleStore, groupStore, calls, userStore, promptStore, promptGroupStore>>

ModifyPermissionBits(I) ==
  \E p \in I.storedPrincipals, r \in I.engineResources,
     add \in I.addBits, rem \in I.removeBits :
    LET m == modifyPermissionBits(aclStore, p[1], p[2], r[1], r[2], add, rem)
        old == IF m.found THEN aclStore[m.index].permBits ELSE 0
    IN /\ Live
       /\ aclStore' = m.store
       /\ lastOp' = [op |-> "modifyPermissionBits", pt |-> p[1], pid |-> p[2],
                     rt |-> r[1], rid |-> r[2], addBits |-> add, removeBits |-> rem,
                     threw |-> FALSE, found |-> m.found, index |-> m.index, old |-> old,
                     changed |-> m.store # aclStore]
       /\ UNCHANGED <<accessRoleStore, groupStore, calls, userStore, promptStore, promptGroupStore>>

BulkUpdateResourcePermissions(I) ==
  \E r \in I.resources, updated \in I.bulkUpdated, revoked \in I.bulkRevoked,
     by \in I.grantedBys, now \in I.times :
    LET b == bulkUpdateResourcePermissions(aclStore, accessRoleStore, r[1], r[2],
                                           updated, revoked, by, now)
    IN /\ Live
       /\ Len(b.store) <= I.maxEntries
       /\ ClockAt(now)
       /\ aclStore' = b.store
       /\ lastOp' = [op |-> "bulkUpdateResourcePermissions", rt |-> r[1], rid |-> r[2],
                     updated |-> updated, revokedPrincipals |-> revoked,
                     grantedBy |-> by, now |-> now, threw |-> b.threw,
                     granted |-> b.granted, revoked |-> b.revoked, errors |-> b.errors,
                     changed |-> b.store # aclStore]
       /\ UNCHANGED <<accessRoleStore, groupStore, calls, userStore, promptStore, promptGroupStore>>

RemoveAllPermissions(I) ==
  \E r \in I.resources :
    LET d == removeAllPermissions(aclStore, r[1], r[2]) IN
      /\ Live
      /\ aclStore' = d.store
      /\ lastOp' = [op |-> "removeAllPermissions", rt |-> r[1], rid |-> r[2],
                    threw |-> d.threw, deletedCount |-> d.deletedCount,
                    changed |-> d.store # aclStore]
      /\ UNCHANGED <<accessRoleStore, groupStore, calls, userStore, promptStore, promptGroupStore>>

\* A check that drops the user's entries on the resource that hold none of
\* the required bits.
CheckPermission_Pruning(I) ==
  \E u \in I.users, role \in I.roleNames, r \in I.resources, req \in I.requiredBits,
     fault \in I.faults :
    LET c == checkPermission(aclStore, groupStore, u, role, r[1], r[2], req, fault) IN
      /\ Live
      /\ aclStore' = SelectSeq(aclStore, LAMBDA e :
                       ~( /\ MatchesFilter(e, TupleFilter(USER, u, r[1], r[2]))
                          /\ BitAnd(e.permBits, req) = 0 ))
      /\ lastOp' = [op |-> "checkPermission", userId |-> u, role |-> role, fault |-> fault,
                    rt |-> r[1], rid |-> r[2], requiredPermission |-> req,
                    threw |-> c.threw, ret |-> c.ret, changed |-> FALSE]
      /\ UNCHANGED <<accessRoleStore, groupStore, calls, userStore, promptStore,
                     promptGroupStore>>

CheckPermission(I) ==
  \E u \in I.users, role \in I.roleNames, r \in I.resources, req \in I.requiredBits,
     fault \in I.faults :
    LET c == checkPermission(aclStore, groupStore, u, role, r[1], r[2], req, fault) IN
      /\ Live
      /\ lastOp' = [op |-> "checkPermission", userId |-> u, role |-> role, fault |-> fault,
                    rt |-> r[1], rid |-> r[2], requiredPermission |-> req,
                    threw |-> c.threw, ret |-> c.ret, changed |-> FALSE]
      /\ UNCHANGED <<aclStore, accessRoleStore, groupStore, calls, userStore, promptStore, promptGroupStore>>

GetEffectivePermissions(I) ==
  \E u \in I.users, role \in I.roleNames, r \in I.resources, fault \in I.faults :
    /\ Live
    /\ lastOp' = [op |-> "getEffectivePermissions", userId |-> u, role |-> role,
                  fault |-> fault, rt |-> r[1], rid |-> r[2], threw |-> FALSE,
                  ret |-> getEffectivePermissions(aclStore, groupStore, u, role,
                                                  r[1], r[2], fault),
                  changed |-> FALSE]
    /\ UNCHANGED <<aclStore, accessRoleStore, groupStore, calls, userStore, promptStore, promptGroupStore>>

\* hasPermission of aclEntry.ts called directly
HasPermission(I) ==
  \E P \in I.principalLists, r \in I.engineResources, req \in I.requiredBits :
    /\ Live
    /\ lastOp' = [op |-> "hasPermission", principals |-> P, rt |-> r[1], rid |-> r[2],
                  permissionBit |-> req, threw |-> FALSE,
                  ret |-> hasPermission(aclStore, P, r[1], r[2], req),
                  changed |-> FALSE]
    /\ UNCHANGED <<aclStore, accessRoleStore, groupStore, calls, userStore, promptStore, promptGroupStore>>

\* getEffectivePermissions of aclEntry.ts called directly
GetEffectivePermissionsACL(I) ==
  \E P \in I.principalLists, r \in I.engineResources :
    /\ Live
    /\ lastOp' = [op |-> "getEffectivePermissionsACL", principals |-> P,
                  rt |-> r[1], rid |-> r[2], threw |-> FALSE,
                  ret |-> getEffectivePermissionsACL(aclStore, P, r[1], r[2]),
                  changed |-> FALSE]
    /\ UNCHANGED <<aclStore, accessRoleStore, groupStore, calls, userStore, promptStore, promptGroupStore>>

\* findAccessibleResources of aclEntry.ts called directly
FindAccessibleResourcesACL(I) ==
  \E P \in I.principalLists, rt \in I.resourceTypes, req \in I.requiredBits :
    /\ Live
    /\ lastOp' = [op |-> "findAccessibleResourcesACL", principals |-> P, rt |-> rt,
                  requiredPermBit |-> req, threw |-> FALSE,
                  ret |-> findAccessibleResourcesACL(aclStore, P, rt, req),
                  changed |-> FALSE]
    /\ UNCHANGED <<aclStore, accessRoleStore, groupStore, calls, userStore, promptStore, promptGroupStore>>

\* getEffectivePermissionsForResources of aclEntry.ts called directly
GetEffectivePermissionsForResources(I) ==
  \E P \in I.principalLists, rt \in I.resourceTypes, ids \in I.idLists :
    /\ Live
    /\ lastOp' = [op |-> "getEffectivePermissionsForResources", principals |-> P,
                  rt |-> rt, resourceIds |-> ids, threw |-> FALSE,
                  ret |-> getEffectivePermissionsForResources(aclStore, P, rt, ids),
                  changed |-> FALSE]
    /\ UNCHANGED <<aclStore, accessRoleStore, groupStore, calls, userStore, promptStore, promptGroupStore>>

FindAccessibleResources(I) ==
  \E u \in I.users, role \in I.roleNames, rt \in I.resourceTypes,
     req \in I.requiredBits, fault \in I.faults :
    LET f == findAccessibleResources(aclStore, groupStore, u, role, rt, req, fault) IN
      /\ Live
      /\ lastOp' = [op |-> "findAccessibleResources", userId |-> u, role |-> role,
                    fault |-> fault, rt |-> rt, requiredPermissions |-> req,
                    threw |-> f.threw, ret |-> f.ret, changed |-> FALSE]
      /\ UNCHANGED <<aclStore, accessRoleStore, groupStore, calls, userStore, promptStore, promptGroupStore>>

FindPubliclyAccessibleResources(I) ==
  \E rt \in I.resourceTypes, req \in I.requiredBits, fault \in I.faults :
    LET f == findPubliclyAccessibleResources(aclStore, rt, req, fault) IN
      /\ Live
      /\ lastOp' = [op |-> "findPubliclyAccessibleResources", fault |-> fault,
                    rt |-> rt, requiredPermissions |-> req,
                    threw |-> f.threw, ret |-> f.ret, changed |-> FALSE]
      /\ UNCHANGED <<aclStore, accessRoleStore, groupStore, calls, userStore, promptStore, promptGroupStore>>

HasPublicPermission(I) ==
  \E r \in I.resources, req \in I.requiredBits, fault \in I.faults :
    LET h == hasPublicPermission(aclStore, r[1], r[2], req, fault) IN
      /\ Live
      /\ lastOp' = [op |-> "hasPublicPermission", fault |-> fault,
                    rt |-> r[1], rid |-> r[2], requiredPermissions |-> req,
                    threw |-> h.threw, ret |-> h.ret, changed |-> FALSE]
      /\ UNCHANGED <<aclStore, accessRoleStore, groupStore, calls, userStore, promptStore, promptGroupStore>>

GetResourcePermissionsMap(I) ==
  \E u \in I.users, role \in I.roleNames, rt \in I.resourceTypes,
     ids \in I.idLists, fault \in I.faults :
    LET m == getResourcePermissionsMap(aclStore, groupStore, u, role, rt, ids, fault) IN
      /\ Live
      /\ lastOp' = [op |-> "getResourcePermissionsMap", userId |-> u, role |-> role,
                    fault |-> fault, rt |-> rt, resourceIds |-> ids,
                    threw |-> m.threw, ret |-> m.ret, changed |-> FALSE]
      /\ UNCHANGED <<aclStore, accessRoleStore, groupStore, calls, userStore, promptStore, promptGroupStore>>

\* getUserPrincipals of userGroup.ts called directly
GetUserPrincipals(I) ==
  \E u \in I.users, role \in I.roleNames :
    /\ Live
    /\ lastOp' = [op |-> "getUserPrincipals", userId |-> u, role |-> role,
                  threw |-> FALSE, ret |-> getUserPrincipals(groupStore, u, role),
                  changed |-> FALSE]
    /\ UNCHANGED <<aclStore, accessRoleStore, groupStore, calls, userStore, promptStore, promptGroupStore>>

\* The list queries of the engine and of the facade.
ListCalls(I) ==
  \/ FindAccessibleResourcesACL(I)
  \/ GetEffectivePermissionsForResources(I)
  \/ FindAccessibleResources(I)
  \/ FindPubliclyAccessibleResources(I)
  \/ HasPublicPermission(I)
  \/ GetResourcePermissionsMap(I)

\* The write calls of the call surface.
WriteCalls(I) ==
  \/ SeedDefaultRoles
  \/ GrantPermission(I)
  \/ GrantPermissionACL(I)
  \/ RevokePermission(I)
  \/ ModifyPermissionBits(I)
  \/ BulkUpdateResourcePermissions(I)
  \/ RemoveAllPermissions(I)

\* The group collaborator's calls and the queries.
GroupCalls(I) ==
  \/ CreateGroup(I)
  \/ AddUserToGroup(I)
  \/ RemoveUserFromGroup(I)

QueryCalls(I) ==
  \/ CheckPermission(I)
  \/ GetEffectivePermissions(I)
  \/ HasPermission(I)
  \/ GetEffectivePermissionsACL(I)

-----------------------------------------------------------------------------
(* Spec: the write calls over tuples that differ in principal (a user,      *)
(* PUBLIC with a null id, PUBLIC with a missing id) and in resource.        *)

TupleInputs ==
  [ principals |-> { <<USER, "u1">>, <<PUBLIC, NULL>> },
    enginePrincipals |-> { <<USER, "u1">>, <<PUBLIC, NULL>> },
    storedPrincipals |-> { <<USER, "u1">>, <<PUBLIC, NULL>>, <<PUBLIC, UNDEF>> },
    resources |-> { <<AGENT, "r1">> },
    engineResources |-> { <<AGENT, "r1">>, <<AGENT, "r2">> },
    accessRoleIds |-> {"agent_viewer", "agent_owner"},
    grantedBys |-> {"u1"},
    times |-> {0},
    maxEntries |-> MaxEntries,
    engineBits |-> {EDIT},
    engineRoleIds |-> {UNDEF},
    addBits |-> {EDIT},
    removeBits |-> {0},
    bulkUpdated |-> { << >>,
                      << BulkPrincipal(<<PUBLIC, UNDEF>>, "agent_viewer") >>,
                      << BulkPrincipal(<<USER, "u1">>, "agent_owner") >> },
    bulkRevoked |-> { << >>,
                      << BulkPrincipal(<<PUBLIC, UNDEF>>, UNDEF) >>,
                      << BulkPrincipal(<<USER, "u1">>, UNDEF) >> } ]

Next == WriteCalls(TupleInputs)

Spec == Init /\ [][Next]_vars

-----------------------------------------------------------------------------
(* Vocabulary of the properties. *)

\* The set of bit positions of a mask.
Bits(n) == {k \in 0..3 : (n \div (2 ^ k)) % 2 = 1}

\* The entries of the store whose four tuple fields are exactly these values.
EntriesOf(pt, pid, rt, rid) ==
  {i \in 1..Len(aclStore) :
     /\ aclStore[i].principalType = pt
     /\ aclStore[i].principalId = pid
     /\ aclStore[i].resourceType = rt
     /\ aclStore[i].resourceId = rid}

\* The principal a tuple names: a missing id names the same principal as null.
IdOf(pid) == IF pid = UNDEF THEN NULL ELSE pid

TupleOf(e) == <<e.principalType, IdOf(e.principalId), e.resourceType, e.resourceId>>

GrantOps == {"grantPermission", "grantPermissionACL"}

SuccessfulGrant == lastOp.op \in GrantOps /\ ~lastOp.threw

\* permBits and roleId the latest grant asked for.
GrantedBits ==
  IF lastOp.op = "grantPermissionACL"
    THEN lastOp.permBits
    ELSE (CHOOSE r \in Range(defaultRoles) : r.accessRoleId = lastOp.accessRoleId).permBits

GrantedRoleId ==
  IF lastOp.op = "grantPermissionACL"
    THEN lastOp.roleId
    ELSE (CHOOSE r \in Range(defaultRoles) : r.accessRoleId = lastOp.accessRoleId)._id

-----------------------------------------------------------------------------
C2_GrantReplaces ==
  SuccessfulGrant =>
    LET T == EntriesOf(lastOp.pt, lastOp.pid, lastOp.rt, lastOp.rid) IN
      /\ Cardinality(T) = 1
      /\ \A i \in T : aclStore[i].permBits = GrantedBits

\* OWNER (15) was granted to a tuple, then VIEWER (1): the entry holds 1.
C2_Witness ==
  /\ lastOp.op = "grantPermission"
  /\ ~lastOp.threw
  /\ ~lastOp.created
  /\ lastOp.old = OWNER
  /\ lastOp.accessRoleId = "agent_viewer"
  /\ \E i \in 1..Len(aclStore) : aclStore[i].permBits = VIEWER

(* C7: revokePermission on tuple T removes T's entry and returns            *)
(* deletedCount = 1 when T had one; when T had none it returns              *)
(* deletedCount = 0, does not throw and leaves the whole store unchanged;   *)
(* the count is always 0 or 1.                                              *)
C7_Revoke ==
  [][ lastOp'.op = "revokePermission" =>
        LET had == EntriesOf(lastOp'.pt, lastOp'.pid, lastOp'.rt, lastOp'.rid) IN
          /\ ~lastOp'.threw
          /\ lastOp'.deletedCount \in {0, 1}
          /\ lastOp'.deletedCount = Cardinality(had)
          /\ Len(aclStore') = Len(aclStore) - Cardinality(had)
          /\ \A i \in 1..Len(aclStore') :
               /\ \E j \in 1..Len(aclStore) : aclStore[j] = aclStore'[i]
               /\ ~( /\ aclStore'[i].principalType = lastOp'.pt
                     /\ aclStore'[i].principalId = lastOp'.pid
                     /\ aclStore'[i].resourceType = lastOp'.rt
                     /\ aclStore'[i].resourceId = lastOp'.rid )
          /\ (had = {} => aclStore' = aclStore) ]_vars

\* A revoke removed the entry of its tuple and left another entry in place.
C7_Witness ==
  /\ lastOp.op = "revokePermission"
  /\ lastOp.deletedCount = 1
  /\ Len(aclStore) = 1

(* C10: after every successful grant on tuple T, creating or replacing,     *)
(* T's entry has the permBits, roleId and grantedBy of that grant and       *)
(* grantedAt is the time of that grant; no earlier roleId survives.         *)
C10_GrantOverwritesAll ==
  SuccessfulGrant =>
    \A i \in EntriesOf(lastOp.pt, lastOp.pid, lastOp.rt, lastOp.rid) :
      /\ aclStore[i].permBits = GrantedBits
      /\ aclStore[i].roleId = GrantedRoleId
      /\ aclStore[i].grantedBy = lastOp.grantedBy
      /\ aclStore[i].grantedAt = lastOp.now

-----------------------------------------------------------------------------
(* SpecModify: one tuple, granted through the facade and then modified      *)
(* with masks that overlap the stored bits and each other.                  *)

ModifyInputs ==
  [ principals |-> { <<USER, "u1">> },
    storedPrincipals |-> { <<USER, "u1">>, <<GROUP, "g1">> },
    resources |-> { <<AGENT, "r1">> },
    engineResources |-> { <<AGENT, "r1">> },
    accessRoleIds |-> {"agent_viewer", "agent_editor"},
    grantedBys |-> {"u1"},
    times |-> {0},
    maxEntries |-> MaxEntries,
    addBits |-> {0, EDIT, VIEW + DELETE},
    removeBits |-> {0, VIEW, EDIT + DELETE} ]

NextModify ==
  \/ SeedDefaultRoles
  \/ GrantPermission(ModifyInputs)
  \/ ModifyPermissionBits(ModifyInputs)
  \/ RevokePermission(ModifyInputs)

SpecModify == Init /\ [][NextModify]_vars

(* C8: modifyPermissionBits(T, add, remove) on a tuple whose entry has bits *)
(* b leaves the entry with (b | add) & ~remove and every other entry as it  *)
(* was; on a tuple with no entry it returns null and creates no entry.      *)
C8_Modify ==
  [][ lastOp'.op = "modifyPermissionBits" =>
        LET T == EntriesOf(lastOp'.pt, lastOp'.pid, lastOp'.rt, lastOp'.rid) IN
          IF T = {}
            THEN ~lastOp'.found /\ aclStore' = aclStore
            ELSE /\ lastOp'.found
                 /\ Len(aclStore') = Len(aclStore)
                 /\ \A i \in 1..Len(aclStore) :
                      IF i \in T
                        THEN /\ Bits(aclStore'[i].permBits) =
                                  (Bits(aclStore[i].permBits) \cup Bits(lastOp'.addBits))
                                     \ Bits(lastOp'.removeBits)
                             /\ aclStore'[i] =
                                  [aclStore[i] EXCEPT !.permBits = aclStore'[i].permBits]
                        ELSE aclStore'[i] = aclStore[i] ]_vars

\* EDITOR bits 3, add VIEW|DELETE, remove EDIT|DELETE: the entry holds 1.
C8_Witness ==
  /\ lastOp.op = "modifyPermissionBits"
  /\ lastOp.found
  /\ lastOp.old = EDITOR
  /\ lastOp.addBits = VIEW + DELETE
  /\ lastOp.removeBits = EDIT + DELETE
  /\ aclStore[lastOp.index].permBits = VIEW

-----------------------------------------------------------------------------
(* SpecValidate: facade grants with arguments the facade must refuse, next  *)
(* to arguments it accepts, before and after the roles are seeded.          *)

ValidateInputs ==
  [ principals |-> { <<USER, "u1">>, <<"bogus", "u1">>, <<GROUP, NULL>>,
                     <<USER, UNDEF>>, <<PUBLIC, NULL>> },
    storedPrincipals |-> { <<USER, "u1">>, <<PUBLIC, NULL>> },
    resources |-> { <<AGENT, "r1">>, <<AGENT, NULL>>, <<AGENT, UNDEF>>,
                    <<"file", "r1">>, <<PROMPTGROUP, "r1">> },
    engineResources |-> { <<AGENT, "r1">>, <<PROMPTGROUP, "r1">> },
    accessRoleIds |-> {"agent_viewer", "no_such_role", "promptGroup_viewer"},
    grantedBys |-> {"u1"},
    times |-> {0},
    maxEntries |-> MaxEntries ]

NextValidate ==
  \/ SeedDefaultRoles
  \/ GrantPermission(ValidateInputs)
  \/ RevokePermission(ValidateInputs)

SpecValidate == Init /\ [][NextValidate]_vars

\* The arguments of a facade grant that the facade must refuse.
BadGrantInput(op, roles) ==
  \/ op.pt \notin {"user", "group", "role", "public"}
  \/ op.pt # "public" /\ op.pid \in {NULL, UNDEF}
  \/ op.rid \in {NULL, UNDEF}
  \/ op.rt \notin {"agent", "promptGroup", "mcpServer", "remoteAgent"}
  \/ \A i \in 1..Len(roles) : roles[i].accessRoleId # op.accessRoleId
  \/ \E i \in 1..Len(roles) :
       roles[i].accessRoleId = op.accessRoleId /\ roles[i].resourceType # op.rt

(* C9: PermissionService.grantPermission throws and leaves the ACL store    *)
(* unchanged when the principalType is not recognized, when the principalId *)
(* of a non-PUBLIC principal is missing, when the resourceId is missing,    *)
(* when the resourceType is not registered, when the accessRoleId is        *)
(* unknown, or when the role belongs to another resourceType.               *)
C9_GrantValidates ==
  [][ (lastOp'.op = "grantPermission" /\ BadGrantInput(lastOp', accessRoleStore)) =>
        (lastOp'.threw /\ aclStore' = aclStore) ]_vars

\* A role of another resource type was refused on a store that holds an entry.
C9_Witness ==
  /\ lastOp.op = "grantPermission"
  /\ lastOp.threw
  /\ lastOp.pt = USER /\ lastOp.pid = "u1"
  /\ lastOp.rt = AGENT /\ lastOp.rid = "r1"
  /\ lastOp.accessRoleId = "promptGroup_viewer"
  /\ HasRole(accessRoleStore, "promptGroup_viewer")
  /\ Len(aclStore) >= 1

-----------------------------------------------------------------------------
(* SpecQuery: grants to a user, a group and PUBLIC on one resource, group   *)
(* membership changes, and the queries of the facade and of the engine.     *)

QueryInputs ==
  [ principals |-> { <<USER, "u1">>, <<GROUP, "g1">>, <<PUBLIC, NULL>> },
    enginePrincipals |-> { <<GROUP, "g1">> },
    storedPrincipals |-> { <<USER, "u1">>, <<GROUP, "g1">>, <<PUBLIC, NULL>> },
    resources |-> { <<AGENT, "r1">> },
    engineResources |-> { <<AGENT, "r1">> },
    accessRoleIds |-> {"agent_viewer", "agent_editor"},
    grantedBys |-> {"u1"},
    times |-> {0},
    maxEntries |-> MaxEntries,
    engineBits |-> {EDIT},
    engineRoleIds |-> {UNDEF},
    groupIds |-> {"g1"},
    members |-> {"u1"},
    users |-> {"u1", "u2"},
    roleNames |-> {UNDEF},
    faults |-> {FALSE},
    requiredBits |-> {VIEW, EDIT, VIEW + EDIT},
    principalLists |-> { << PrincipalRec(USER, "u1") >>,
                         << PrincipalRec(USER, "u1"), PrincipalRec(GROUP, "g1") >>,
                         << PrincipalRec(USER, "u1"), PrincipalRec(PUBLIC, UNDEF) >> } ]

NextQuery ==
  \/ SeedDefaultRoles
  \/ GrantPermission(QueryInputs)
  \/ GrantPermissionACL(QueryInputs)
  \/ RevokePermission(QueryInputs)
  \/ GroupCalls(QueryInputs)
  \/ QueryCalls(QueryInputs)

SpecQuery == Init /\ [][NextQuery]_vars

\* The entries on the resource of the latest call.
OnResource == {i \in 1..Len(aclStore) :
                 aclStore[i].resourceType = lastOp.rt /\ aclStore[i].resourceId = lastOp.rid}

\* Entry e is an entry of one of the principals of list P.
InList(e, P) ==
  \E k \in 1..Len(P) :
    /\ P[k].principalType = e.principalType
    /\ e.principalType = "public" \/ P[k].principalId = e.principalId

\* Entry e is an entry of a principal of the user: the user, the user's
\* role, a group the user is a member of, or PUBLIC.
HeldBy(e, userId, role) ==
  \/ e.principalType = "user" /\ e.principalId = userId
  \/ e.principalType = "role" /\ role \notin {NULL, UNDEF, "", " "} /\ e.principalId = role
  \/ /\ e.principalType = "group"
     /\ \E g \in 1..Len(groupStore) :
          /\ groupStore[g]._id = e.principalId
          /\ \E m \in 1..Len(groupStore[g].memberIds) : groupStore[g].memberIds[m] = userId
  \/ e.principalType = "public"

(* C3: hasPermission and checkPermission are true exactly when one single   *)
(* matching entry has every required bit, (permBits & required) = required; *)
(* bits of several entries are not combined.                                *)
C3_SingleEntry ==
  /\ lastOp.op = "hasPermission" =>
       lastOp.ret = (\E i \in OnResource :
                       /\ InList(aclStore[i], lastOp.principals)
                       /\ Bits(lastOp.permissionBit) \subseteq Bits(aclStore[i].permBits))
  /\ (lastOp.op = "checkPermission" /\ ~lastOp.threw) =>
       lastOp.ret = (\E i \in OnResource :
                       /\ HeldBy(aclStore[i], lastOp.userId, lastOp.role)
                       /\ Bits(lastOp.requiredPermission) \subseteq Bits(aclStore[i].permBits))

\* The user holds VIEW, a group of the user holds EDIT: VIEW|EDIT is refused.
C3_Witness ==
  /\ lastOp.op = "checkPermission"
  /\ lastOp.userId = "u1"
  /\ lastOp.requiredPermission = VIEW + EDIT
  /\ ~lastOp.ret
  /\ \E i, j \in OnResource :
       /\ aclStore[i].principalType = USER /\ aclStore[i].principalId = "u1"
       /\ aclStore[i].permBits = VIEW
       /\ aclStore[j].principalType = GROUP /\ aclStore[j].permBits = EDIT
       /\ HeldBy(aclStore[j], "u1", UNDEF)

(* C4: getEffectivePermissions(P, R) is the bitwise OR of the permBits of   *)
(* every entry on R whose principal is in P or is PUBLIC.                   *)
C4_EffectiveIsOr ==
  lastOp.op = "getEffectivePermissionsACL" =>
    Bits(lastOp.ret) =
      UNION { Bits(aclStore[i].permBits) :
                i \in {j \in OnResource :
                         \/ aclStore[j].principalType = "public"
                         \/ \E k \in 1..Len(lastOp.principals) :
                              /\ lastOp.principals[k].principalType = aclStore[j].principalType
                              /\ lastOp.principals[k].principalId = aclStore[j].principalId} }

(* C5: while PUBLIC holds an entry with bits 1 on a resource,               *)
(* checkPermission(userId, resource, 1) is true for every userId.           *)
C5_PublicGrant ==
  ( /\ lastOp.op = "checkPermission"
    /\ lastOp.requiredPermission = 1
    /\ \E i \in OnResource :
         aclStore[i].principalType = "public" /\ aclStore[i].permBits = 1 ) =>
  (~lastOp.threw /\ lastOp.ret)

\* A user with no entry and no group passes on the PUBLIC entry alone.
C5_Witness ==
  /\ lastOp.op = "checkPermission"
  /\ lastOp.userId = "u2"
  /\ lastOp.requiredPermission = VIEW
  /\ lastOp.ret
  /\ Len(aclStore) = 1
  /\ aclStore[1].principalType = PUBLIC
  /\ aclStore[1].permBits = VIEWER

(* C6: checkPermission(u, R, EDIT) is false while the only entry of u's     *)
(* principals on R has VIEW alone, and true as soon as a group that         *)
(* contains u holds VIEW|EDIT on R.                                         *)
C6_GroupGrant ==
  lastOp.op = "checkPermission" /\ lastOp.requiredPermission = 2 =>
    LET mine == {i \in OnResource : HeldBy(aclStore[i], lastOp.userId, lastOp.role)} IN
      /\ (mine # {} /\ \A i \in mine : aclStore[i].permBits = 1) => ~lastOp.ret
      /\ (\E i \in mine : aclStore[i].principalType = "group" /\ aclStore[i].permBits = 3)
           => lastOp.ret

\* u1 holds VIEW, u1's group g1 holds VIEW|EDIT: the EDIT check passes.
C6_Witness ==
  /\ lastOp.op = "checkPermission"
  /\ lastOp.userId = "u1"
  /\ lastOp.requiredPermission = EDIT
  /\ lastOp.ret
  /\ \E i, j \in OnResource :
       /\ aclStore[i].principalType = USER /\ aclStore[i].principalId = "u1"
       /\ aclStore[i].permBits = VIEW
       /\ aclStore[j].principalType = GROUP /\ aclStore[j].permBits = EDITOR
       /\ HeldBy(aclStore[j], "u1", UNDEF)

-----------------------------------------------------------------------------
(* SpecBulk: bulk updates of one resource with lists of three principals,   *)
(* all valid or some with a missing, unknown or foreign accessRoleId.       *)

BulkInputs ==
  [ resources |-> { <<AGENT, "r1">> },
    grantedBys |-> {"u1"},
    times |-> {0},
    maxEntries |-> MaxBulkEntries,
    bulkUpdated |->
      { << >>,
        << BulkPrincipal(<<USER, "u1">>, "agent_viewer"),
           BulkPrincipal(<<USER, "u2">>, "agent_editor"),
           BulkPrincipal(<<GROUP, "g1">>, "agent_owner") >>,
        << BulkPrincipal(<<USER, "u1">>, "agent_editor"),
           BulkPrincipal(<<USER, "u2">>, "no_such_role"),
           BulkPrincipal(<<GROUP, "g1">>, "agent_viewer") >>,
        << BulkPrincipal(<<USER, "u1">>, UNDEF),
           BulkPrincipal(<<USER, "u2">>, "agent_viewer") >>,
        << BulkPrincipal(<<USER, "u1">>, "promptGroup_viewer") >>,
        << BulkPrincipal(<<USER, "u1">>, "agent_viewer"),
           BulkPrincipal(<<USER, "u1">>, "agent_owner") >> },
    bulkRevoked |-> { << >>, << BulkPrincipal(<<USER, "u1">>, UNDEF) >> } ]

NextBulk ==
  \/ SeedDefaultRoles
  \/ BulkUpdateResourcePermissions(BulkInputs)
  \/ RemoveAllPermissions(BulkInputs)

SpecBulk == Init /\ [][NextBulk]_vars

\* The item names a role of the registry that belongs to the resource type.
ValidItem(p, rt) ==
  \E i \in 1..Len(accessRoleStore) :
    /\ accessRoleStore[i].accessRoleId = p.accessRoleId
    /\ accessRoleStore[i].resourceType = rt

\* The items of a list that satisfy Test, in the order of the list.
RECURSIVE ItemsWhere(_, _, _)
ItemsWhere(list, Test(_), i) ==
  IF i > Len(list) THEN << >>
  ELSE (IF Test(list[i]) THEN << list[i] >> ELSE << >>) \o ItemsWhere(list, Test, i + 1)

\* The bits of the role the last item of the list for principal (t, id) names.
LastGrantedBits(list, t, id) ==
  LET k == CHOOSE k \in 1..Len(list) :
             /\ list[k].type = t /\ list[k].id = id
             /\ \A m \in (k + 1)..Len(list) : ~(list[m].type = t /\ list[m].id = id)
  IN (CHOOSE r \in Range(defaultRoles) : r.accessRoleId = list[k].accessRoleId).permBits

-----------------------------------------------------------------------------
(* SpecFind: grants to a user, a group and PUBLIC on two resources and the  *)
(* list queries of the engine and of the facade.                            *)

FindInputs ==
  [ principals |-> { <<USER, "u1">>, <<PUBLIC, NULL>> },
    enginePrincipals |-> { <<GROUP, "g1">> },
    resources |-> { <<AGENT, "r1">>, <<AGENT, "r2">> },
    engineResources |-> { <<AGENT, "r1">> },
    resourceTypes |-> {AGENT},
    accessRoleIds |-> {"agent_viewer", "agent_editor"},
    grantedBys |-> {"u1"},
    times |-> {0},
    maxEntries |-> MaxEntries,
    engineBits |-> {EDIT},
    engineRoleIds |-> {UNDEF},
    users |-> {"u1", "u2"},
    roleNames |-> {UNDEF},
    faults |-> {FALSE},
    requiredBits |-> {VIEW, VIEW + EDIT},
    idLists |-> { << >>, << "r1" >>, << "r1", "r2" >>, << "r2", "r3" >> },
    principalLists |-> { << PrincipalRec(USER, "u1") >>,
                         << PrincipalRec(USER, "u1"), PrincipalRec(GROUP, "g1") >>,
                         << PrincipalRec(USER, "u1"), PrincipalRec(PUBLIC, UNDEF) >> } ]

NextFind ==
  \/ SeedDefaultRoles
  \/ GrantPermission(FindInputs)
  \/ GrantPermissionACL(FindInputs)
  \/ ListCalls(FindInputs)

SpecFind == Init /\ [][NextFind]_vars

\* The resourceIds a list query can be asked about.
KnownIds == {aclStore[i].resourceId : i \in 1..Len(aclStore)} \cup {"r1", "r2", "r3"}

NoDuplicates(seq) == \A i, j \in 1..Len(seq) : seq[i] = seq[j] => i = j

(* C13: findAccessibleResources(principals, type, requiredBit) returns,     *)
(* without duplicates, exactly the resourceIds r of that type for which     *)
(* hasPermission(principals, type, r, requiredBit) is true; a resource on   *)
(* which the principals hold only some of the required bits is left out.    *)
C13_FindAccessible ==
  /\ lastOp.op = "findAccessibleResourcesACL" =>
       /\ NoDuplicates(lastOp.ret)
       /\ Range(lastOp.ret) =
            {r \in KnownIds :
               hasPermission(aclStore, lastOp.principals, lastOp.rt, r,
                             lastOp.requiredPermBit)}
  /\ (lastOp.op = "findAccessibleResources" /\ ~lastOp.threw) =>
       /\ NoDuplicates(lastOp.ret)
       /\ Range(lastOp.ret) =
            {r \in KnownIds :
               checkPermission(aclStore, groupStore, lastOp.userId, lastOp.role,
                               lastOp.rt, r, lastOp.requiredPermissions, FALSE).ret}

\* u1 holds VIEW on r1 and VIEW|EDIT on r2: requiring VIEW|EDIT gives r2 only.
C13_Witness ==
  /\ lastOp.op = "findAccessibleResources"
  /\ lastOp.userId = "u1"
  /\ lastOp.requiredPermissions = VIEW + EDIT
  /\ lastOp.ret = << "r2" >>
  /\ \E i \in 1..Len(aclStore) :
       /\ aclStore[i].principalType = USER /\ aclStore[i].resourceId = "r1"
       /\ aclStore[i].permBits = VIEW

(* C14: findPubliclyAccessibleResources(type, requiredBit) returns exactly  *)
(* the resourceIds of that type that carry a PUBLIC entry e with            *)
(* (e.permBits & requiredBit) = requiredBit, the resources for which        *)
(* hasPublicPermission is true; a PUBLIC entry with bits 3 is returned for  *)
(* requiredBit 1.                                                           *)
C14_FindPublic ==
  (lastOp.op = "findPubliclyAccessibleResources" /\ ~lastOp.threw) =>
    /\ Range(lastOp.ret) =
         {r \in KnownIds :
            \E i \in 1..Len(aclStore) :
              /\ aclStore[i].principalType = "public"
              /\ aclStore[i].resourceType = lastOp.rt
              /\ aclStore[i].resourceId = r
              /\ Bits(lastOp.requiredPermissions) \subseteq Bits(aclStore[i].permBits)}
    /\ Range(lastOp.ret) =
         {r \in KnownIds :
            hasPublicPermission(aclStore, lastOp.rt, r,
                                lastOp.requiredPermissions, FALSE).ret}

(* C15: the batched query agrees with the single query: for every id of the *)
(* list, the value of getEffectivePermissionsForResources(P, type, ids) at  *)
(* id (0 when the map has no such key) is getEffectivePermissions(P, type,  *)
(* id); ids outside the list are never keys, and an empty list gives an     *)
(* empty map.                                                               *)
C15_BatchAgrees ==
  lastOp.op = "getEffectivePermissionsForResources" =>
    /\ DOMAIN lastOp.ret \subseteq Range(lastOp.resourceIds)
    /\ \A id \in Range(lastOp.resourceIds) :
         (IF id \in DOMAIN lastOp.ret THEN lastOp.ret[id] ELSE 0) =
           getEffectivePermissionsACL(aclStore, lastOp.principals, lastOp.rt, id)
    /\ (Len(lastOp.resourceIds) = 0 => DOMAIN lastOp.ret = {})

\* VIEW of the user and EDIT of the group on r1 combine to 3; r2 has no key.
C15_Witness ==
  /\ lastOp.op = "getEffectivePermissionsForResources"
  /\ lastOp.resourceIds = << "r1", "r2" >>
  /\ DOMAIN lastOp.ret = {"r1"}
  /\ lastOp.ret["r1"] = VIEW + EDIT
  /\ Len(aclStore) = 2
  /\ aclStore[1].permBits # aclStore[2].permBits

-----------------------------------------------------------------------------
(* SpecPrincipals: two groups whose membership changes, and the resolver    *)
(* called for users with and without a role.                                *)

PrincipalInputs ==
  [ groupIds |-> {"g1", "g2"},
    members |-> {"u1", "u2"},
    users |-> {"u1", "u2"},
    roleNames |-> {UNDEF, NULL, "", " ", "admin"} ]

NextPrincipals ==
  \/ GroupCalls(PrincipalInputs)
  \/ GetUserPrincipals(PrincipalInputs)

SpecPrincipals == Init /\ [][NextPrincipals]_vars

\* The list the resolver is to return, withRole telling whether the role
\* principal belongs to it.
ResolvedShape(ret, userId, role, withRole) ==
  LET k == IF withRole THEN 2 ELSE 1
      mine == {g \in 1..Len(groupStore) :
                 \E m \in 1..Len(groupStore[g].memberIds) :
                   groupStore[g].memberIds[m] = userId}
  IN /\ Len(ret) = k + Cardinality(mine) + 1
     /\ ret[1].principalType = "user" /\ ret[1].principalId = userId
     /\ withRole => (ret[2].principalType = "role" /\ ret[2].principalId = role)
     /\ \A j \in (k + 1)..(Len(ret) - 1) : ret[j].principalType = "group"
     /\ {ret[j].principalId : j \in (k + 1)..(Len(ret) - 1)} =
          {groupStore[g]._id : g \in mine}
     /\ ret[Len(ret)].principalType = "public"

(* C16 as stated: getUserPrincipals(userId, role) returns {USER, userId},   *)
(* then {ROLE, role} if and only if role is a non-empty string, then one    *)
(* {GROUP, groupId} for each group whose memberIds contain userId and for   *)
(* no other group, then {PUBLIC} as the last element.                       *)
C16_PrincipalsAsStated ==
  lastOp.op = "getUserPrincipals" =>
    ResolvedShape(lastOp.ret, lastOp.userId, lastOp.role,
                  lastOp.role \notin {NULL, UNDEF, ""})

(* C16 amended: as above, with {ROLE, role} in the list if and only if role *)
(* is a string that is not empty after trimming.                            *)
C16_Principals ==
  lastOp.op = "getUserPrincipals" =>
    ResolvedShape(lastOp.ret, lastOp.userId, lastOp.role,
                  lastOp.role \notin {NULL, UNDEF, "", " "})

\* u1 with role admin, member of g2 and not of g1: user, role, g2, public.
C16_Witness ==
  /\ lastOp.op = "getUserPrincipals"
  /\ lastOp.userId = "u1"
  /\ lastOp.role = "admin"
  /\ Len(groupStore) = 2
  /\ Len(lastOp.ret) = 4
  /\ lastOp.ret[3].principalId = "g2"
  /\ lastOp.ret[4].principalType = PUBLIC

-----------------------------------------------------------------------------
(* SpecRead: the read paths called with good and bad arguments (a resource  *)
(* type that is not registered, a mask of 0) and with and without a failure *)
(* of principal resolution or of the store during the call.                 *)

ReadInputs ==
  [ principals |-> { <<USER, "u1">>, <<PUBLIC, NULL>> },
    resources |-> { <<AGENT, "r1">>, <<"file", "r1">> },
    engineResources |-> { <<AGENT, "r1">> },
    resourceTypes |-> {AGENT, "file"},
    accessRoleIds |-> {"agent_viewer"},
    grantedBys |-> {"u1"},
    times |-> {0},
    maxEntries |-> MaxEntries,
    users |-> {"u1"},
    roleNames |-> {UNDEF},
    faults |-> BOOLEAN,
    requiredBits |-> {0, VIEW},
    idLists |-> { << >>, << "r1" >> },
    principalLists |-> { << PrincipalRec(USER, "u1") >>,
                         << PrincipalRec(USER, "u1"), PrincipalRec(PUBLIC, UNDEF) >> } ]

NextRead ==
  \/ SeedDefaultRoles
  \/ GrantPermission(ReadInputs)
  \/ QueryCalls(ReadInputs)
  \/ ListCalls(ReadInputs)

SpecRead == Init /\ [][NextRead]_vars

\* The mask of the latest call, under the name its function gives it.
MaskOf(op) ==
  CASE op.op = "hasPermission" -> op.permissionBit
    [] op.op = "findAccessibleResourcesACL" -> op.requiredPermBit
    [] op.op = "checkPermission" -> op.requiredPermission
    [] op.op \in {"findAccessibleResources", "findPubliclyAccessibleResources",
                  "hasPublicPermission"} -> op.requiredPermissions
    [] OTHER -> 1

\* The safe negative of each read path: false, 0, the empty map, [].
SafeNegative(op) ==
  CASE op.op = "checkPermission" -> op.ret = FALSE
    [] op.op = "getEffectivePermissions" -> op.ret = 0
    [] op.op = "getResourcePermissionsMap" -> DOMAIN op.ret = {}
    [] op.op \in {"findAccessibleResources", "findPubliclyAccessibleResources"} ->
         Len(op.ret) = 0
    [] OTHER -> TRUE

FacadeReads == {"checkPermission", "getEffectivePermissions", "getResourcePermissionsMap",
                "findAccessibleResources", "findPubliclyAccessibleResources"}

(* C17: read paths fail closed: when principal resolution or the store      *)
(* fails with a non-validation error during checkPermission,                *)
(* getEffectivePermissions, getResourcePermissionsMap,                      *)
(* findAccessibleResources or findPubliclyAccessibleResources, the call     *)
(* does not throw and returns false, 0, the empty map or [].                *)
C17_FailClosed ==
  ( /\ lastOp.op \in FacadeReads
    /\ lastOp.fault
    /\ lastOp.rt \in {"agent", "promptGroup", "mcpServer", "remoteAgent"}
    /\ MaskOf(lastOp) >= 1 ) =>
  (~lastOp.threw /\ SafeNegative(lastOp))

(* C18: an unknown resourceType is always propagated: checkPermission,      *)
(* getEffectivePermissions, findAccessibleResources,                        *)
(* findPubliclyAccessibleResources and getResourcePermissionsMap throw when *)
(* the resourceType is not registered, and do not return false, 0 or [].    *)
C18_UnknownTypeThrows ==
  ( /\ lastOp.op \in FacadeReads
    /\ lastOp.rt \notin {"agent", "promptGroup", "mcpServer", "remoteAgent"} ) =>
  lastOp.threw

(* C19: every permission query that takes a required mask throws for a mask *)
(* below 1: hasPermission and findAccessibleResources of the engine,        *)
(* checkPermission, findAccessibleResources and                             *)
(* findPubliclyAccessibleResources of the facade; none answers true or a    *)
(* non-empty list for such a mask.                                          *)
C19_BadMaskThrows ==
  ( /\ lastOp.op \in {"hasPermission", "findAccessibleResourcesACL", "checkPermission",
                      "findAccessibleResources", "findPubliclyAccessibleResources"}
    /\ MaskOf(lastOp) < 1 ) =>
  ( /\ lastOp.threw
    /\ lastOp.op \in {"hasPermission", "checkPermission"} => lastOp.ret = FALSE
    /\ lastOp.op \notin {"hasPermission", "checkPermission"} => Len(lastOp.ret) = 0 )

\* ---------------------------------------------------------------------------
\* Resource-access middleware (canAccessAgentResource, canAccessMCPServerResource)
\* ---------------------------------------------------------------------------

\* SystemRoles.ADMIN
ADMIN == "ADMIN"

\* req.user of an unauthenticated request, and the lookup that finds nothing.
NoUser == [id |-> NULL, role |-> NULL]
NotFound == [id |-> NULL, author |-> NULL]

\* What a guard does with a request: a response status, or next() (status 0).
Respond(status) == [status |-> status, next |-> FALSE]
CallNext == [status |-> 0, next |-> TRUE]

\* The guard with the resource lookup ahead of the authentication check.
canAccessResource_LookupFirst(store, groups, user, resource, rt, requiredPermission, fault) ==
  IF resource = NotFound THEN Respond(404)
  ELSE IF user = NoUser THEN Respond(401)
  ELSE IF resource.author = user.id \/ user.role = ADMIN THEN CallNext
  ELSE IF checkPermission(store, groups, user.id, user.role, rt, resource.id,
                          requiredPermission, fault).ret
    THEN CallNext
    ELSE Respond(403)

\* The guard that sends every authenticated caller through the ACL check.
canAccessResource_NoBypass(store, groups, user, resource, rt, requiredPermission, fault) ==
  IF user = NoUser THEN Respond(401)
  ELSE IF resource = NotFound THEN Respond(404)
  ELSE IF checkPermission(store, groups, user.id, user.role, rt, resource.id,
                          requiredPermission, fault).ret
    THEN CallNext
    ELSE Respond(403)

\* The guard returned by the factory for one resource type: req.user, the
\* result of the resource lookup (NotFound when nothing is found) and the
\* requiredPermission the factory was given.
canAccessResource(store, groups, user, resource, rt, requiredPermission, fault) ==
  IF user = NoUser THEN Respond(401)
  ELSE IF resource = NotFound THEN Respond(404)
  ELSE IF resource.author = user.id \/ user.role = ADMIN THEN CallNext
  ELSE IF checkPermission(store, groups, user.id, user.role, rt, resource.id,
                          requiredPermission, fault).ret
    THEN CallNext
    ELSE Respond(403)

\* One request through a guard.
CanAccessResource(I) ==
  \E user \in I.requestUsers, resource \in I.lookups, rt \in I.resourceTypes,
     req \in I.requiredBits, fault \in I.faults :
    LET out == canAccessResource(aclStore, groupStore, user, resource, rt, req, fault) IN
      /\ Live
      /\ lastOp' = [op |-> "canAccessResource", user |-> user, resource |-> resource,
                    rt |-> rt, requiredPermission |-> req, fault |-> fault,
                    status |-> out.status, next |-> out.next, changed |-> FALSE]
      /\ UNCHANGED <<aclStore, accessRoleStore, groupStore, calls, userStore, promptStore, promptGroupStore>>

\* Requests of the middleware tests: no user, the author, another user, an
\* administrator; a lookup that finds nothing and one that finds the server
\* r1 written by u1.
GuardInputs ==
  [ principals |-> { <<USER, "u1">>, <<USER, "u2">>, <<PUBLIC, NULL>> },
    resources |-> { <<MCPSERVER, "r1">> },
    resourceTypes |-> {MCPSERVER},
    accessRoleIds |-> {"mcpServer_viewer", "mcpServer_owner"},
    grantedBys |-> {"u1"},
    times |-> {0},
    maxEntries |-> MaxEntries,
    requestUsers |-> { NoUser, [id |-> "u1", role |-> "USER"],
                       [id |-> "u2", role |-> "USER"],
                       [id |-> "u3", role |-> ADMIN] },
    lookups |-> { NotFound, [id |-> "r1", author |-> "u1"] },
    requiredBits |-> {VIEW, DELETE},
    faults |-> BOOLEAN ]

NextGuard ==
  \/ SeedDefaultRoles
  \/ GrantPermission(GuardInputs)
  \/ CanAccessResource(GuardInputs)

SpecGuard == Init /\ [][NextGuard]_vars

\* The request of the latest guard call passes the ACL check.
GuardPermitted ==
  checkPermission(aclStore, groupStore, lastOp.user.id, lastOp.user.role, lastOp.rt,
                  lastOp.resource.id, lastOp.requiredPermission, lastOp.fault).ret

\* C20: a guard produces exactly one outcome, decided in the order 401 (no
\* authenticated user, whether or not the resource exists), 404 (lookup finds
\* nothing), next() (author or administrator), then next() when checkPermission
\* with the guard's requiredPermission is true and 403 when it is false.
C20_GuardOrder ==
  lastOp.op = "canAccessResource" =>
    /\ lastOp.next <=> lastOp.status = 0
    /\ lastOp.status \in {0, 401, 403, 404}
    /\ lastOp.user = NoUser => lastOp.status = 401
    /\ (lastOp.user # NoUser /\ lastOp.resource = NotFound) => lastOp.status = 404
    /\ (lastOp.user # NoUser /\ lastOp.resource # NotFound) =>
         IF lastOp.resource.author = lastOp.user.id \/ lastOp.user.role = ADMIN
           THEN lastOp.next
           ELSE IF GuardPermitted THEN lastOp.next ELSE lastOp.status = 403

\* An unauthenticated request for a resource that does not exist was answered.
C20_Witness ==
  /\ lastOp.op = "canAccessResource"
  /\ lastOp.user = NoUser
  /\ lastOp.resource = NotFound
  /\ lastOp.status = 401

\* Guard requests between grants and removals of all entries of the resource.
BypassInputs ==
  [ principals |-> { <<USER, "u1">>, <<USER, "u2">>, <<ROLE, ADMIN>> },
    resources |-> { <<MCPSERVER, "r1">> },
    resourceTypes |-> {MCPSERVER},
    accessRoleIds |-> {"mcpServer_viewer", "mcpServer_owner"},
    grantedBys |-> {"u1"},
    times |-> {0},
    maxEntries |-> MaxEntries,
    requestUsers |-> { [id |-> "u1", role |-> "USER"],
                       [id |-> "u2", role |-> "USER"],
                       [id |-> "u3", role |-> ADMIN] },
    lookups |-> { [id |-> "r1", author |-> "u1"] },
    requiredBits |-> {VIEW, EDIT, DELETE, SHARE},
    faults |-> BOOLEAN ]

NextBypass ==
  \/ SeedDefaultRoles
  \/ GrantPermission(BypassInputs)
  \/ RemoveAllPermissions(BypassInputs)
  \/ CanAccessResource(BypassInputs)

SpecBypass == Init /\ [][NextBypass]_vars

\* The caller of the latest guard call is the author or an administrator.
Bypasses == lastOp.resource.author = lastOp.user.id \/ lastOp.user.role = ADMIN

\* C21: for an existing resource and any requiredPermission, the guard calls
\* next() for the recorded author and for an administrator whatever the ACL
\* store holds, also when no entry grants them the permission.
C21_BypassIgnoresAcl ==
  (lastOp.op = "canAccessResource" /\ lastOp.resource # NotFound
     /\ lastOp.user # NoUser /\ Bypasses) =>
    /\ lastOp.next
    /\ lastOp.status = 0

\* An administrator passed a DELETE guard of a resource that has no entry left
\* and whose permission check fails.
C21_Witness ==
  /\ lastOp.op = "canAccessResource"
  /\ lastOp.user.role = ADMIN
  /\ lastOp.resource.author # lastOp.user.id
  /\ lastOp.requiredPermission = DELETE
  /\ Len(accessRoleStore) > 0
  /\ \A i \in 1..Len(aclStore) : aclStore[i].resourceId # lastOp.resource.id
  /\ ~GuardPermitted
  /\ lastOp.next

-----------------------------------------------------------------------------
(* Concurrent calls of the engine's write methods on one tuple.  An async   *)
(* function runs without interruption up to its first await and between     *)
(* awaits.  grantPermission and modifyPermissionBits of aclEntry.ts hold no  *)
(* await: each is one step.  revokePermission returns                        *)
(* deleteManyAclEntries(filter), which evaluates findAclEntries(filter),     *)
(* suspends at its await, and on resumption deletes the entries it found by  *)
(* their _id and returns their number.                                       *)

\* An entry's position stands for its _id; a suspended call refers to the
\* entries it found by position, 0 once the entry is gone.  Deleting the ids D
\* moves the later entries down, and the references with them.
Repoint(ref, D) ==
  IF ref = 0 \/ ref \in D THEN 0
  ELSE ref - Cardinality({d \in D : d < ref})

RECURSIVE DeleteIds(_, _, _)
DeleteIds(store, i, D) ==
  IF i = 0 THEN store
  ELSE DeleteIds(IF i \in D THEN RemoveAt(store, i) ELSE store, i - 1, D)

\* The positions of the entries findAclEntries(filter) returns.
FoundIds(store, filter) ==
  LET idx == {i \in 1..Len(store) : MatchesFilter(store[i], filter)}
      RECURSIVE Asc(_, _)
      Asc(i, acc) == IF i > Len(store) THEN acc
                     ELSE Asc(i + 1, IF i \in idx THEN Append(acc, i) ELSE acc)
  IN Asc(1, << >>)

CallRec(op, a, b, pc, found, ret) ==
  [op |-> op, a |-> a, b |-> b, pc |-> pc, found |-> found, ret |-> ret]

\* What a call returns, as a number: the permBits of the entry for
\* grantPermission and modifyPermissionBits (-1 for null), deletedCount for
\* revokePermission.
StartGrant(I) ==
  \E bits \in I.engineBits :
    LET t == I.tuple
        g == grantPermissionACL(aclStore, t[1], t[2], t[3], t[4], bits,
                                I.grantedBy, UNDEF, 0)
    IN /\ Len(calls) < I.maxCalls
       /\ aclStore' = g.store
       /\ calls' = Append(calls, CallRec("grantPermission", bits, 0, "done", << >>,
                                        g.store[g.index].permBits))
       /\ lastOp' = [op |-> "startGrant", changed |-> TRUE]
       /\ UNCHANGED <<accessRoleStore, groupStore, userStore, promptStore, promptGroupStore>>

StartModify(I) ==
  \E add \in I.addBits, rem \in I.removeBits :
    LET t == I.tuple
        m == modifyPermissionBits(aclStore, t[1], t[2], t[3], t[4], add, rem)
    IN /\ Len(calls) < I.maxCalls
       /\ aclStore' = m.store
       /\ calls' = Append(calls, CallRec("modifyPermissionBits", add, rem, "done", << >>,
                                        IF m.found THEN m.store[m.index].permBits ELSE -1))
       /\ lastOp' = [op |-> "startModify", changed |-> TRUE]
       /\ UNCHANGED <<accessRoleStore, groupStore, userStore, promptStore, promptGroupStore>>

\* revokePermission up to the await of deleteManyAclEntries.
StartRevoke(I) ==
  LET t == I.tuple IN
    /\ Len(calls) < I.maxCalls
    /\ calls' = Append(calls, CallRec("revokePermission", 0, 0, "await",
                         FoundIds(aclStore, TupleFilter(t[1], t[2], t[3], t[4])), 0))
    /\ lastOp' = [op |-> "startRevoke", changed |-> TRUE]
    /\ UNCHANGED <<aclStore, accessRoleStore, groupStore, userStore, promptStore, promptGroupStore>>

\* deleteManyAclEntries after its await: aclStore.delete(entry._id) for every
\* entry found, then {deletedCount: entries.length}.
ResumeRevoke ==
  \E k \in 1..Len(calls) :
    LET D == {calls[k].found[j] : j \in 1..Len(calls[k].found)} \ {0} IN
      /\ calls[k].pc = "await"
      /\ aclStore' = DeleteIds(aclStore, Len(aclStore), D)
      /\ calls' = [c \in 1..Len(calls) |->
                     IF c = k
                       THEN [calls[c] EXCEPT !.pc = "done", !.ret = Len(calls[k].found)]
                       ELSE [calls[c] EXCEPT !.found =
                               [j \in 1..Len(calls[c].found) |-> Repoint(calls[c].found[j], D)]]]
      /\ lastOp' = [op |-> "resumeRevoke", changed |-> TRUE]
      /\ UNCHANGED <<accessRoleStore, groupStore, userStore, promptStore, promptGroupStore>>

AtomicInputs ==
  [ tuple |-> <<USER, "u1", AGENT, "r1">>,
    engineBits |-> {VIEWER, EDITOR},
    addBits |-> {0, EDIT},
    removeBits |-> {0, VIEW},
    grantedBy |-> "u1",
    maxCalls |-> MaxCalls ]

NextAtomic ==
  \/ StartGrant(AtomicInputs)
  \/ StartModify(AtomicInputs)
  \/ StartRevoke(AtomicInputs)
  \/ ResumeRevoke

SpecAtomic == Init /\ [][NextAtomic]_vars

\* The orders in which n calls can run one after the other.
Orders(n) == {f \in [1..n -> 1..n] : \A i, j \in 1..n : f[i] = f[j] => i = j}

\* One call run alone on a store: the store it leaves and what it returns.
RunAlone(c, store) ==
  LET t == AtomicInputs.tuple IN
    CASE c.op = "grantPermission" ->
           LET g == grantPermissionACL(store, t[1], t[2], t[3], t[4], c.a,
                                       AtomicInputs.grantedBy, UNDEF, 0)
           IN [store |-> g.store, ret |-> g.store[g.index].permBits]
      [] c.op = "modifyPermissionBits" ->
           LET m == modifyPermissionBits(store, t[1], t[2], t[3], t[4], c.a, c.b)
           IN [store |-> m.store,
               ret |-> IF m.found THEN m.store[m.index].permBits ELSE -1]
      [] OTHER ->
           LET d == revokePermission(store, t[1], t[2], t[3], t[4])
           IN [store |-> d.store, ret |-> d.deletedCount]

\* The calls run one after the other in the given order from the empty store:
\* the final store, and whether every call returned what it returned here.
RECURSIVE RunInOrder(_, _, _, _)
RunInOrder(order, i, store, same) ==
  IF i > Len(calls) THEN [store |-> store, same |-> same]
  ELSE LET c == calls[order[i]]
           r == RunAlone(c, store)
       IN RunInOrder(order, i + 1, r.store, same /\ r.ret = c.ret)

Quiescent == \A k \in 1..Len(calls) : calls[k].pc = "done"

\* C22: grant, revoke and modify are atomic per tuple: once every concurrent
\* call on the tuple has returned, the entries of the store and every call's
\* return value are those of some sequential order of the same calls.
C22_Atomic ==
  Quiescent =>
    \E order \in Orders(Len(calls)) :
      LET r == RunInOrder(order, 1, << >>, TRUE) IN
        /\ r.same
        /\ r.store = aclStore

-----------------------------------------------------------------------------
(* C23: findEntriesByPrincipalsAndResource, and through it hasPermission,   *)
(* matches every PUBLIC entry of the resource for every principals list,    *)
(* also a list without a PUBLIC principal: while a PUBLIC entry on the      *)
(* resource holds every required bit, hasPermission is true.                *)
C23_PublicAlwaysMatches ==
  ( /\ lastOp.op = "hasPermission"
    /\ \E i \in OnResource :
         /\ aclStore[i].principalType = PUBLIC
         /\ Bits(lastOp.permissionBit) \subseteq Bits(aclStore[i].permBits) ) =>
    lastOp.ret

-----------------------------------------------------------------------------
(* Grants through the facade with principals of every shape: with and       *)
(* without an id, PUBLIC with an id, an unrecognized type.                  *)

ShapeInputs ==
  [ principals |-> { <<USER, "u1">>, <<USER, NULL>>, <<GROUP, "g1">>, <<ROLE, "admin">>,
                     <<PUBLIC, NULL>>, <<PUBLIC, "u1">>, <<"team", "t1">> },
    resources |-> { <<AGENT, "r1">> },
    accessRoleIds |-> {"agent_viewer"},
    grantedBys |-> {"u1"},
    times |-> {0},
    maxEntries |-> MaxEntries,
    bulkUpdated |->
      { << BulkPrincipal(<<USER, "u1">>, "agent_viewer") >>,
        << BulkPrincipal(<<USER, UNDEF>>, "agent_viewer") >>,
        << BulkPrincipal(<<PUBLIC, UNDEF>>, "agent_viewer") >>,
        << BulkPrincipal(<<PUBLIC, "u1">>, "agent_viewer") >>,
        << BulkPrincipal(<<"team", "t1">>, "agent_viewer") >> },
    bulkRevoked |-> { << >> } ]

NextShape ==
  \/ SeedDefaultRoles
  \/ GrantPermission(ShapeInputs)
  \/ BulkUpdateResourcePermissions(ShapeInputs)

SpecShape == Init /\ [][NextShape]_vars

\* null or undefined
NoId(pid) == pid \in {NULL, UNDEF}

\* C24: every stored entry of a USER, GROUP or ROLE principal has a principalId,
\* every PUBLIC entry has none, every entry's principalType is one of the four
\* recognized types, and grantPermission rejects a PUBLIC grant that carries a
\* principalId.
C24_PrincipalShape ==
  /\ \A i \in 1..Len(aclStore) :
       /\ aclStore[i].principalType \in PrincipalTypes
       /\ aclStore[i].principalType # PUBLIC => ~NoId(aclStore[i].principalId)
       /\ aclStore[i].principalType = PUBLIC => NoId(aclStore[i].principalId)
  /\ (lastOp.op = "grantPermission" /\ lastOp.pt = PUBLIC /\ ~NoId(lastOp.pid)) =>
       lastOp.threw

-----------------------------------------------------------------------------
(* C25: after bulkUpdateResourcePermissions returns, no entry is left for   *)
(* (principal, resourceType, resourceId) for any principal it lists in      *)
(* revoked, be it USER, GROUP, ROLE or PUBLIC (submitted without an id).    *)
C25_BulkRevokes ==
  (lastOp.op = "bulkUpdateResourcePermissions" /\ ~lastOp.threw) =>
    \A k \in 1..Len(lastOp.revoked) :
      ~\E i \in 1..Len(aclStore) :
         TupleOf(aclStore[i]) =
           <<lastOp.revoked[k].type, IdOf(lastOp.revoked[k].id), lastOp.rt, lastOp.rid>>

-----------------------------------------------------------------------------
(* User records (user.ts) and the resolver called with a userId only, as in *)
(* userGroup.roles.spec.ts.                                                 *)

\* createUser of user.ts: stores the data under a new id (nanoid()).
CreateUser(I) ==
  \E id \in I.users, role \in I.storedRoles :
    /\ Live
    /\ \A k \in 1..Len(userStore) : userStore[k]._id # id
    /\ userStore' = Append(userStore, [_id |-> id, role |-> role])
    /\ lastOp' = [op |-> "createUser", userId |-> id, role |-> role, changed |-> TRUE]
    /\ UNCHANGED <<aclStore, accessRoleStore, groupStore, calls, promptStore, promptGroupStore>>

UserInputs ==
  [ users |-> {"u1", "u2", "u3"},
    storedRoles |-> {"admin", "USER", NULL},
    roleNames |-> {UNDEF, "admin"} ]

NextUsers ==
  \/ CreateUser(UserInputs)
  \/ GetUserPrincipals(UserInputs)

SpecUsers == Init /\ [][NextUsers]_vars

\* The stored roles of the user records with the given id.
StoredRoles(userId) ==
  {userStore[k].role : k \in {j \in 1..Len(userStore) : userStore[j]._id = userId}}

\* C26: getUserPrincipals called with only a userId returns, for a user whose
\* stored role is 'admin', three principals including {ROLE, 'admin'}, and for
\* a user with no role two principals, none of them a ROLE principal.
C26_RoleFromUserRecord ==
  (lastOp.op = "getUserPrincipals" /\ lastOp.role = UNDEF) =>
    /\ "admin" \in StoredRoles(lastOp.userId) =>
         /\ Len(lastOp.ret) = 3
         /\ \E k \in 1..Len(lastOp.ret) : lastOp.ret[k] = PrincipalRec(ROLE, "admin")
    /\ NULL \in StoredRoles(lastOp.userId) =>
         /\ Len(lastOp.ret) = 2
         /\ \A k \in 1..Len(lastOp.ret) : lastOp.ret[k].principalType # ROLE

-----------------------------------------------------------------------------
(* The engine's queries called with an empty principals list, over stores   *)
(* that hold USER and PUBLIC entries.                                       *)

EmptyListInputs ==
  [ principals |-> { <<USER, "u1">>, <<PUBLIC, NULL>> },
    resources |-> { <<AGENT, "r1">>, <<AGENT, "r2">> },
    engineResources |-> { <<AGENT, "r1">>, <<AGENT, "r2">> },
    resourceTypes |-> {AGENT},
    accessRoleIds |-> {"agent_viewer", "agent_owner"},
    grantedBys |-> {"u1"},
    times |-> {0},
    maxEntries |-> MaxEntries,
    requiredBits |-> {VIEW, EDIT},
    idLists |-> { << >>, << "r1" >>, << "r1", "r2" >> },
    principalLists |-> { << >>, << PrincipalRec(USER, "u1") >> } ]

NextEmptyList ==
  \/ SeedDefaultRoles
  \/ GrantPermission(EmptyListInputs)
  \/ HasPermission(EmptyListInputs)
  \/ GetEffectivePermissionsACL(EmptyListInputs)
  \/ GetEffectivePermissionsForResources(EmptyListInputs)
  \/ FindAccessibleResourcesACL(EmptyListInputs)

SpecEmptyList == Init /\ [][NextEmptyList]_vars

EngineQueries == {"hasPermission", "getEffectivePermissionsACL",
                  "getEffectivePermissionsForResources", "findAccessibleResourcesACL"}

\* C27: with an empty principals list every query of the engine returns its
\* negative without throwing, whatever the store holds: hasPermission false,
\* getEffectivePermissions 0, getEffectivePermissionsForResources the empty
\* map, findAccessibleResources [].
C27_EmptyPrincipals ==
  (lastOp.op \in EngineQueries /\ Len(lastOp.principals) = 0) =>
    /\ ~lastOp.threw
    /\ lastOp.op = "hasPermission" => lastOp.ret = FALSE
    /\ lastOp.op = "getEffectivePermissionsACL" => lastOp.ret = 0
    /\ lastOp.op = "getEffectivePermissionsForResources" => DOMAIN lastOp.ret = {}
    /\ lastOp.op = "findAccessibleResourcesACL" => Len(lastOp.ret) = 0

\* hasPermission was called with an empty list on a resource that PUBLIC holds
\* an entry with the required bit on.
C27_Witness ==
  /\ lastOp.op = "hasPermission"
  /\ Len(lastOp.principals) = 0
  /\ \E i \in OnResource :
       /\ aclStore[i].principalType = PUBLIC
       /\ BitAnd(aclStore[i].permBits, lastOp.permissionBit) = lastOp.permissionBit
  /\ lastOp.ret = FALSE

-----------------------------------------------------------------------------
\* The entries on (rt, rid) that count for user u with role `role` when u's
\* membership of group g is `member` and that of the other groups is the
\* stored one.
CountedFor(u, role, rt, rid, g, member) ==
  {i \in 1..Len(aclStore) :
     /\ aclStore[i].resourceType = rt
     /\ aclStore[i].resourceId = rid
     /\ IF aclStore[i].principalType = GROUP /\ aclStore[i].principalId = g
          THEN member
          ELSE HeldBy(aclStore[i], u, role)}

(* C28: group membership changes take effect on the next query: a           *)
(* checkPermission or getEffectivePermissions for u that follows            *)
(* removeUserFromGroup(u, g) does not count the entries of GROUP g, and one *)
(* that follows addUserToGroup(u, g) counts them.                           *)
C28_MembershipTakesEffect ==
  [][ ( /\ lastOp.op \in {"addUserToGroup", "removeUserFromGroup"}
        /\ lastOp'.op \in {"checkPermission", "getEffectivePermissions"}
        /\ lastOp'.userId = lastOp.userId ) =>
      LET counted == CountedFor(lastOp.userId, lastOp'.role, lastOp'.rt, lastOp'.rid,
                                lastOp.groupId, lastOp.op = "addUserToGroup")
      IN IF lastOp'.op = "checkPermission"
           THEN lastOp'.ret <=>
                  \E i \in counted :
                    Bits(lastOp'.requiredPermission) \subseteq Bits(aclStore[i].permBits)
           ELSE Bits(lastOp'.ret) = UNION {Bits(aclStore[i].permBits) : i \in counted}
    ]_vars

\* u1 has just been removed from a group that holds an entry on a resource.
C28_Witness ==
  /\ lastOp.op = "removeUserFromGroup"
  /\ lastOp.changed
  /\ lastOp.userId = "u1"
  /\ \E i \in 1..Len(aclStore) :
       /\ aclStore[i].principalType = GROUP
       /\ aclStore[i].principalId = lastOp.groupId
       /\ aclStore[i].permBits # 0

-----------------------------------------------------------------------------
(* Prompt groups and their prompts (api/models/Prompt.js over prompt.ts),   *)
(* with the cascading cleanup of the ACL entries of a deleted group.        *)

\* findPrompts / findPromptGroups: every key of the filter compared with !==.
FindRecords(store, filter) == SelectSeq(store, LAMBDA r : MatchesFilter(r, filter))

DeleteFirst(store, filter) ==
  LET i == FirstIndex(store, filter) IN
    IF i = 0 THEN store ELSE RemoveAt(store, i)

\* A cleanup that is skipped.
removePromptGroupPermissions_Skip(acl, groupId, fault) == acl

\* try { await removeAllPermissions({resourceType: PROMPTGROUP, resourceId}) }
\* catch (error) { logger.error(...) }: the ACL store afterwards.  fault: the
\* call rejects (the store's deleteMany fails) and nothing is deleted.
removePromptGroupPermissions(acl, groupId, fault) ==
  IF fault THEN acl
  ELSE removeAllPermissions(acl, PROMPTGROUP, groupId).store

\* deletePromptGroup of Prompt.js
deletePromptGroup(acl, prompts, groups, id, author, role, fault) ==
  LET restrict == ~Falsy(author) /\ role # ADMIN
      query == IF restrict THEN [_id |-> id, author |-> author] ELSE [_id |-> id]
      groupQuery == IF restrict THEN [groupId |-> id, author |-> author]
                    ELSE [groupId |-> id]
  IN IF FirstIndex(groups, query) = 0
       THEN [acl |-> acl, prompts |-> prompts, groups |-> groups,
             threw |-> TRUE, last |-> FALSE]
       ELSE [acl |-> removePromptGroupPermissions(acl, id, fault),
             prompts |-> SelectSeq(prompts, LAMBDA q : ~MatchesFilter(q, groupQuery)),
             groups |-> DeleteFirst(groups, query),
             threw |-> FALSE, last |-> FALSE]

\* deletePrompt of Prompt.js; last: no prompt of the group remained.
deletePrompt(acl, prompts, groups, promptId, groupId, author, role, fault) ==
  LET query == IF role = ADMIN THEN [_id |-> promptId, groupId |-> groupId]
               ELSE [_id |-> promptId, groupId |-> groupId, author |-> author]
  IN IF FirstIndex(prompts, query) = 0
       THEN [acl |-> acl, prompts |-> prompts, groups |-> groups,
             threw |-> TRUE, last |-> FALSE]
       ELSE
         LET prompts1 == DeleteFirst(prompts, query)
             remainingPrompts == FindRecords(prompts1, [groupId |-> groupId])
             g == FirstIndex(groups, [_id |-> groupId])
         IN IF Len(remainingPrompts) = 0
              THEN [acl |-> removePromptGroupPermissions(acl, groupId, fault),
                    prompts |-> prompts1,
                    groups |-> DeleteFirst(groups, [_id |-> groupId]),
                    threw |-> FALSE, last |-> TRUE]
              ELSE [acl |-> acl,
                    prompts |-> prompts1,
                    groups |-> IF g # 0 /\ groups[g].productionId = promptId
                                 THEN [groups EXCEPT ![g].productionId =
                                         remainingPrompts[Len(remainingPrompts)]._id]
                                 ELSE groups,
                    threw |-> FALSE, last |-> FALSE]

\* createPromptGroup of Prompt.js: a new group and its first prompt, which
\* becomes the production prompt; the ids are those nanoid() returns.
CreatePromptGroup(I) ==
  \E g \in I.promptGroupIds, q \in I.promptIds, author \in I.authors :
    /\ Live
    /\ \A k \in 1..Len(promptGroupStore) : promptGroupStore[k]._id # g
    /\ \A k \in 1..Len(promptStore) : promptStore[k]._id # q
    /\ promptGroupStore' = Append(promptGroupStore,
                                  [_id |-> g, author |-> author, productionId |-> q])
    /\ promptStore' = Append(promptStore, [_id |-> q, groupId |-> g, author |-> author])
    /\ lastOp' = [op |-> "createPromptGroup", changed |-> TRUE]
    /\ UNCHANGED <<aclStore, accessRoleStore, groupStore, calls, userStore>>

\* savePrompt of Prompt.js: Prompt.create of a prompt of a group.
SavePrompt(I) ==
  \E g \in I.promptGroupIds, q \in I.promptIds, author \in I.authors :
    /\ Live
    /\ \A k \in 1..Len(promptStore) : promptStore[k]._id # q
    /\ promptStore' = Append(promptStore, [_id |-> q, groupId |-> g, author |-> author])
    /\ lastOp' = [op |-> "savePrompt", changed |-> TRUE]
    /\ UNCHANGED <<aclStore, accessRoleStore, groupStore, calls, userStore,
                   promptGroupStore>>

DeletePromptGroup(I) ==
  \E g \in I.promptGroupIds, caller \in I.callers, fault \in I.faults :
    LET d == deletePromptGroup(aclStore, promptStore, promptGroupStore, g,
                               caller.id, caller.role, fault)
    IN /\ Live
       /\ aclStore' = d.acl
       /\ promptStore' = d.prompts
       /\ promptGroupStore' = d.groups
       /\ lastOp' = [op |-> "deletePromptGroup", groupId |-> g, author |-> caller.id,
                     role |-> caller.role, fault |-> fault, threw |-> d.threw,
                     last |-> d.last, deletedCount |-> Len(aclStore) - Len(d.acl),
                     changed |-> ~d.threw]
       /\ UNCHANGED <<accessRoleStore, groupStore, calls, userStore>>

DeletePrompt(I) ==
  \E q \in I.promptIds, g \in I.promptGroupIds, caller \in I.callers, fault \in I.faults :
    LET d == deletePrompt(aclStore, promptStore, promptGroupStore, q, g,
                          caller.id, caller.role, fault)
    IN /\ Live
       /\ aclStore' = d.acl
       /\ promptStore' = d.prompts
       /\ promptGroupStore' = d.groups
       /\ lastOp' = [op |-> "deletePrompt", promptId |-> q, groupId |-> g,
                     author |-> caller.id, role |-> caller.role, fault |-> fault,
                     threw |-> d.threw, last |-> d.last,
                     deletedCount |-> Len(aclStore) - Len(d.acl),
                     changed |-> ~d.threw]
       /\ UNCHANGED <<accessRoleStore, groupStore, calls, userStore>>

PromptInputs ==
  [ promptGroupIds |-> {"pg1"},
    promptIds |-> {"p1", "p2"},
    authors |-> {"u1"},
    callers |-> { [id |-> "u1", role |-> "USER"], [id |-> "u2", role |-> "USER"],
                  [id |-> "u3", role |-> ADMIN] },
    faults |-> BOOLEAN,
    principals |-> { <<USER, "u1">>, <<PUBLIC, NULL>> },
    resources |-> { <<PROMPTGROUP, "pg1">> },
    accessRoleIds |-> {"promptGroup_owner"},
    grantedBys |-> {"u1"},
    times |-> {0},
    maxEntries |-> MaxEntries ]

NextPrompt ==
  \/ SeedDefaultRoles
  \/ GrantPermission(PromptInputs)
  \/ CreatePromptGroup(PromptInputs)
  \/ SavePrompt(PromptInputs)
  \/ DeletePrompt(PromptInputs)
  \/ DeletePromptGroup(PromptInputs)

SpecPrompt == Init /\ [][NextPrompt]_vars

\* The latest call deleted a prompt group: deletePromptGroup, or deletePrompt
\* of the group's last prompt.
GroupDeleted ==
  /\ lastOp.op \in {"deletePrompt", "deletePromptGroup"}
  /\ ~lastOp.threw
  /\ lastOp.op = "deletePrompt" => lastOp.last

-----------------------------------------------------------------------------
(* The facade's read operations over stores with entries, roles and groups, *)
(* with inputs that make them throw or fail closed.                         *)

PureInputs ==
  [ principals |-> { <<USER, "u1">>, <<GROUP, "g1">>, <<PUBLIC, NULL>> },
    resources |-> { <<AGENT, "r1">>, <<"file", "r1">> },
    resourceTypes |-> {AGENT, "file"},
    accessRoleIds |-> {"agent_viewer"},
    grantedBys |-> {"u1"},
    times |-> {0},
    maxEntries |-> MaxEntries,
    groupIds |-> {"g1"},
    members |-> {"u1"},
    users |-> {"u1"},
    roleNames |-> {UNDEF},
    faults |-> BOOLEAN,
    requiredBits |-> {0, VIEW, EDIT},
    idLists |-> { << >>, << "r1" >> } ]

NextPure ==
  \/ SeedDefaultRoles
  \/ GrantPermission(PureInputs)
  \/ GroupCalls(PureInputs)
  \/ CheckPermission(PureInputs)
  \/ GetEffectivePermissions(PureInputs)
  \/ GetResourcePermissionsMap(PureInputs)
  \/ FindAccessibleResources(PureInputs)
  \/ FindPubliclyAccessibleResources(PureInputs)
  \/ HasPublicPermission(PureInputs)

SpecPure == Init /\ [][NextPure]_vars

\* C30: checkPermission, getEffectivePermissions, getResourcePermissionsMap,
\* findAccessibleResources, findPubliclyAccessibleResources and
\* hasPublicPermission are pure queries: whatever their input, also one that
\* makes them throw or fail closed, they leave the ACL store, the access-role
\* registry and the group store unchanged.
C30_ReadsArePure ==
  [][ lastOp'.op \in FacadeReads \cup {"hasPublicPermission"} =>
        /\ aclStore' = aclStore
        /\ accessRoleStore' = accessRoleStore
        /\ groupStore' = groupStore ]_vars

\* A check that failed was made on a resource the user holds an entry on, with
\* roles seeded and the user in a group.
C30_Witness ==
  /\ lastOp.op = "checkPermission"
  /\ ~lastOp.ret
  /\ \E i \in OnResource :
       aclStore[i].principalType = USER /\ aclStore[i].principalId = lastOp.userId
  /\ Len(accessRoleStore) > 0
  /\ \E g \in 1..Len(groupStore) : lastOp.userId \in Range(groupStore[g].memberIds)

-----------------------------------------------------------------------------
(* The role registry on its own: roles created by createRole, under default *)
(* and other accessRoleIds, next to the seeded ones.                        *)

\* createRole: the nanoid is drawn from I.roleOids and is not the _id of a
\* role of the registry.
CreateRole(I) ==
  \E aid \in I.roleIds, t \in I.roleTypes, bits \in I.roleBits, id \in I.roleOids :
    /\ Live
    /\ \A r \in Range(accessRoleStore) : r._id # id
    /\ accessRoleStore' = createRole(accessRoleStore, aid, t, bits, id)
    /\ lastOp' = [op |-> "createRole", changed |-> TRUE,
                  ret |-> accessRoleStore'[RoleIndex(accessRoleStore', aid)]]
    /\ UNCHANGED <<aclStore, groupStore, calls, userStore, promptStore, promptGroupStore>>

GetRoleForPermissions(I) ==
  \E t \in I.roleTypes, bits \in I.queryBits :
    /\ Live
    /\ lastOp' = [op |-> "getRoleForPermissions", resourceType |-> t, permBits |-> bits,
                  ret |-> getRoleForPermissions(accessRoleStore, t, bits),
                  changed |-> FALSE]
    /\ UNCHANGED <<aclStore, accessRoleStore, groupStore, calls, userStore, promptStore,
                   promptGroupStore>>

RoleInputs ==
  [ roleIds |-> {"agent_viewer", "custom_a", "custom_b"},
    roleTypes |-> {AGENT, PROMPTGROUP},
    roleBits |-> {VIEW, BitOr(VIEW, DELETE), BitOr(VIEW, SHARE)},
    roleOids |-> {"n1", "n2"},
    queryBits |-> {VIEW, EDIT, EDITOR, 7, 9, 13, OWNER} ]

NextRoles ==
  \/ SeedDefaultRoles
  \/ CreateRole(RoleInputs)
  \/ GetRoleForPermissions(RoleInputs)

SpecRoles == Init /\ [][NextRoles]_vars

DefaultRoleIds == {defaultRoles[i].accessRoleId : i \in 1..Len(defaultRoles)}

\* The registry holds a role under each of the twelve default accessRoleIds.
AllSeeded(roles) == \A aid \in DefaultRoleIds : HasRole(roles, aid)

\* C31: seedDefaultRoles on an empty registry installs the twelve roles VIEWER
\* (1), EDITOR (3) and OWNER (15) of agent, promptGroup, mcpServer and
\* remoteAgent; a call on a registry that was seeded leaves the registry as it
\* is (same roles, same _id, same bits) and returns the twelve roles the
\* registry holds under the default ids.
C31_SeedIdempotent ==
  [][ lastOp'.op = "seedDefaultRoles" =>
        /\ accessRoleStore = << >> =>
             /\ Len(accessRoleStore') = 12
             /\ \A t \in ResourceTypes, b \in {VIEWER, EDITOR, OWNER} :
                  \E r \in Range(accessRoleStore') : r.resourceType = t /\ r.permBits = b
        /\ AllSeeded(accessRoleStore) =>
             /\ accessRoleStore' = accessRoleStore
             /\ DOMAIN lastOp'.ret = DefaultRoleIds
             /\ \A aid \in DefaultRoleIds :
                  lastOp'.ret[aid] = accessRoleStore[RoleIndex(accessRoleStore, aid)]
    ]_vars

\* A second seeding: it found every default role and changed nothing.
C31_Witness ==
  /\ lastOp.op = "seedDefaultRoles"
  /\ ~lastOp.changed
  /\ Len(accessRoleStore) >= 12

\* C32: seedDefaultRoles skips the resource types that have entries: when the
\* registry holds a role of a type before the call, the roles of that type
\* are the same after it (no default role of the type installed, the roles
\* there unmodified).
C32_SeedSkipsTypes ==
  [][ lastOp'.op = "seedDefaultRoles" =>
        \A t \in ResourceTypes :
          findRolesByResourceType(accessRoleStore, t) # << >> =>
            findRolesByResourceType(accessRoleStore', t) =
              findRolesByResourceType(accessRoleStore, t)
    ]_vars

\* The roles of type t whose bits all lie in the mask.
FittingRoles(t, bits) ==
  {r \in Range(accessRoleStore) :
     r.resourceType = t /\ BitAnd(r.permBits, bits) = r.permBits}

\* C33: getRoleForPermissions(type, bits) returns a role of the type with
\* exactly these bits when there is one; else a role of the type with the
\* greatest permBits among those whose bits are a subset of bits; else null.
\* The role returned is never of another type and never holds a bit that is
\* not in bits.
C33_RoleForPermissions ==
  lastOp.op = "getRoleForPermissions" =>
    LET t == lastOp.resourceType
        bits == lastOp.permBits
        fitting == FittingRoles(t, bits)
    IN /\ (\E r \in fitting : r.permBits = bits) =>
            lastOp.ret \in fitting /\ lastOp.ret.permBits = bits
       /\ (fitting # {} /\ \A r \in fitting : r.permBits # bits) =>
            /\ lastOp.ret \in fitting
            /\ \A r \in fitting : r.permBits <= lastOp.ret.permBits
       /\ fitting = {} => lastOp.ret = NoRole
       /\ lastOp.ret # NoRole =>
            /\ lastOp.ret.resourceType = t
            /\ BitAnd(lastOp.ret.permBits, bits) = lastOp.ret.permBits

\* No role has the bits asked for, two roles with different bits fit, and a
\* role of the type with more bits than the mask exists.
C33_Witness ==
  /\ lastOp.op = "getRoleForPermissions"
  /\ lastOp.ret # NoRole
  /\ lastOp.ret.permBits # lastOp.permBits
  /\ \E r \in FittingRoles(lastOp.resourceType, lastOp.permBits) :
       r.permBits < lastOp.ret.permBits
  /\ \E r \in Range(accessRoleStore) :
       r.resourceType = lastOp.resourceType /\ r.permBits > lastOp.permBits

-----------------------------------------------------------------------------
(* The three engine queries compared on every store SpecFind reaches.       *)

\* The principal lists, resources and masks the queries are compared on.
ComparedPrincipals ==
  FindInputs.principalLists \cup
    { << >>, << PrincipalRec(GROUP, "g1") >>, << PrincipalRec(PUBLIC, UNDEF) >> }
ComparedIds == {"r1", "r2", "r3"}
Masks == 1..15

\* C34: in every reachable state, for all principals, resources and masks
\* b >= 1: when hasPermission(principals, resource, b) is true the effective
\* permissions of the principals on the resource contain b, and every
\* resource findAccessibleResources(principals, type, b) returns has effective
\* permissions containing b.
C34_QueriesAgree ==
  \A P \in ComparedPrincipals, b \in Masks :
    /\ \A rid \in ComparedIds :
         hasPermission(aclStore, P, AGENT, rid, b) =>
           BitAnd(getEffectivePermissionsACL(aclStore, P, AGENT, rid), b) = b
    /\ LET found == findAccessibleResourcesACL(aclStore, P, AGENT, b)
       IN \A k \in 1..Len(found) :
            BitAnd(getEffectivePermissionsACL(aclStore, P, AGENT, found[k]), b) = b

\* A store where, for one principal list, hasPermission is true for a mask of
\* two bits on one resource and false on another that holds an entry of the
\* list, and findAccessibleResources returns exactly the first.
C34_Witness ==
  \E P \in ComparedPrincipals :
    /\ hasPermission(aclStore, P, AGENT, "r1", EDITOR)
    /\ ~hasPermission(aclStore, P, AGENT, "r2", EDITOR)
    /\ getEffectivePermissionsACL(aclStore, P, AGENT, "r2") # 0
    /\ findAccessibleResourcesACL(aclStore, P, AGENT, EDITOR) = << "r1" >>

-----------------------------------------------------------------------------
(* The frame of the engine's three writes, over the tuples of Spec.         *)

EngineWrites == {"grantPermissionACL", "revokePermission", "modifyPermissionBits"}

\* The entries of the store that are not entries of the tuple.
OtherEntries(store, pt, pid, rt, rid) ==
  SelectSeq(store, LAMBDA e : ~MatchesFilter(e, TupleFilter(pt, pid, rt, rid)))

\* The principal lists the frame is observed with.
FramePrincipals ==
  { << PrincipalRec(USER, "u1") >>,
    << PrincipalRec(PUBLIC, UNDEF) >>,
    << PrincipalRec(USER, "u1"), PrincipalRec(PUBLIC, UNDEF) >> }

\* C35: grantPermission, revokePermission and modifyPermissionBits of the
\* engine on tuple T leave every entry of every other tuple as it was, and so
\* leave hasPermission and getEffectivePermissions of every principal list on
\* every other resource as they were.
C35_WriteFrame ==
  [][ lastOp'.op \in EngineWrites =>
        LET op == lastOp' IN
          /\ OtherEntries(aclStore', op.pt, op.pid, op.rt, op.rid) =
               OtherEntries(aclStore, op.pt, op.pid, op.rt, op.rid)
          /\ \A P \in FramePrincipals, rid \in {"r1", "r2"} \ {op.rid}, b \in Masks :
               /\ hasPermission(aclStore', P, AGENT, rid, b) =
                    hasPermission(aclStore, P, AGENT, rid, b)
               /\ getEffectivePermissionsACL(aclStore', P, AGENT, rid) =
                    getEffectivePermissionsACL(aclStore, P, AGENT, rid)
    ]_vars

\* An engine write has changed the store while an entry of another tuple was
\* in it.
C35_Witness ==
  /\ lastOp.op \in EngineWrites
  /\ lastOp.changed
  /\ OtherEntries(aclStore, lastOp.pt, lastOp.pid, lastOp.rt, lastOp.rid) # << >>

-----------------------------------------------------------------------------
(* What modifyPermissionBits leaves of the entry it changes, over SpecModify *)
(* (entries granted with a role, then modified).                            *)

\* The fields of an entry other than permBits.
FrameFields ==
  {"principalType", "principalId", "resourceType", "resourceId",
   "roleId", "grantedBy", "grantedAt"}

\* The permBits of the role whose _id the entry carries, -1 when the registry
\* has no such role.
RoleBitsOf(e) ==
  IF \E r \in Range(accessRoleStore) : r._id = e.roleId
    THEN (CHOOSE r \in Range(accessRoleStore) : r._id = e.roleId).permBits
    ELSE -1

\* C36: modifyPermissionBits changes only permBits: the store has the same
\* entries in the same places, and the entry of the tuple has the same roleId,
\* grantedBy, grantedAt and tuple fields after the call as before it.
C36_ModifyFrame ==
  [][ lastOp'.op = "modifyPermissionBits" =>
        /\ Len(aclStore') = Len(aclStore)
        /\ \A i \in 1..Len(aclStore) :
             /\ \A f \in FrameFields : aclStore'[i][f] = aclStore[i][f]
             /\ i # lastOp'.index => aclStore'[i] = aclStore[i]
    ]_vars

\* A modify has changed the bits of an entry granted with a role: the entry
\* carries the roleId of a role whose permBits are not the entry's.
C36_Witness ==
  /\ lastOp.op = "modifyPermissionBits"
  /\ lastOp.found
  /\ lastOp.changed
  /\ RoleBitsOf(aclStore[lastOp.index]) >= 0
  /\ RoleBitsOf(aclStore[lastOp.index]) # aclStore[lastOp.index].permBits

-----------------------------------------------------------------------------
(* A principal listed in both lists of one bulk update, over the tuples of  *)
(* Spec.                                                                    *)

\* The entry is an entry of the principal: PUBLIC is one principal whatever
\* id it is written with, the others are told apart by their id.
EntryOfPrincipal(e, p) ==
  /\ e.principalType = p.type
  /\ p.type = PUBLIC \/ e.principalId = p.id

\* The principal is listed (by type and id) in the list.
ListedIn(p, list) ==
  \E k \in 1..Len(list) : list[k].type = p.type /\ list[k].id = p.id

-----------------------------------------------------------------------------
(* The two facades' grantPermission on the same stores and the same input.  *)

AccessControlGrantPermission(I) ==
  \E p \in I.principals, r \in I.resources, aid \in I.accessRoleIds,
     by \in I.grantedBys, now \in I.times :
    LET g == accessControlGrantPermission(aclStore, accessRoleStore, p[1], p[2],
                                          r[1], r[2], aid, by, now)
    IN /\ Live
       /\ Len(g.store) <= I.maxEntries
       /\ ClockAt(now)
       /\ aclStore' = g.store
       /\ lastOp' = [op |-> "AccessControlService.grantPermission", pt |-> p[1],
                     pid |-> p[2], rt |-> r[1], rid |-> r[2], accessRoleId |-> aid,
                     grantedBy |-> by, now |-> now, threw |-> g.threw,
                     created |-> g.created, index |-> g.index,
                     changed |-> g.store # aclStore]
       /\ UNCHANGED <<accessRoleStore, groupStore, calls, userStore, promptStore,
                      promptGroupStore>>

FacadeInputs ==
  [ principals |-> { <<USER, "u1">>, <<"bogus", "u1">>, <<USER, UNDEF>>,
                     <<ROLE, " ">>, <<PUBLIC, NULL>> },
    resources |-> { <<AGENT, "r1">>, <<AGENT, UNDEF>>, <<"file", "r1">> },
    accessRoleIds |-> {"agent_viewer", "no_such_role", "promptGroup_viewer"},
    grantedBys |-> {"u1"},
    times |-> {0},
    maxEntries |-> MaxEntries ]

NextFacades ==
  \/ SeedDefaultRoles
  \/ GrantPermission(FacadeInputs)
  \/ AccessControlGrantPermission(FacadeInputs)

SpecFacades == Init /\ [][NextFacades]_vars

\* The fields of a stored entry the two facades are compared on.
GrantFields ==
  {"principalType", "principalId", "resourceType", "resourceId",
   "permBits", "roleId", "grantedBy"}

\* C38: for every input, on every store, PermissionService.grantPermission
\* and AccessControlService.grantPermission either both throw or both
\* succeed, and on success the entry they leave for the tuple has the same
\* tuple fields, permBits, roleId and grantedBy.
C38_FacadesAgree ==
  \A p \in FacadeInputs.principals, r \in FacadeInputs.resources,
     aid \in FacadeInputs.accessRoleIds, by \in FacadeInputs.grantedBys :
    LET a == grantPermission(aclStore, accessRoleStore, p[1], p[2], r[1], r[2],
                             aid, by, 0)
        b == accessControlGrantPermission(aclStore, accessRoleStore, p[1], p[2],
                                          r[1], r[2], aid, by, 0)
    IN /\ a.threw = b.threw
       /\ (~a.threw /\ ~b.threw) =>
            \A f \in GrantFields : a.store[a.index][f] = b.store[b.index][f]

-----------------------------------------------------------------------------
(* removeAllPermissions racing with the facade's grantPermission and        *)
(* bulkUpdateResourcePermissions on one resource.  The calls interleave at  *)
(* their awaits.  removeAllPermissions awaits AclEntry.deleteMany, which    *)
(* evaluates findAclEntries({resourceType, resourceId}) when it is called   *)
(* and, resumed, deletes the entries it found by their _id.                 *)
(* grantPermission awaits findRoleByIdentifier and then runs the engine's   *)
(* grant, which holds no await.  bulkUpdateResourcePermissions awaits       *)
(* AccessRole.find, then every grant of the update loop, then every         *)
(* findOneAndDelete of the revoke loop, which finds its entry when it is    *)
(* called and deletes it by _id when resumed.                               *)

RaceResource == <<AGENT, "r1">>

RaceCall(op, p, aid, updated, revoked, pc, i, found) ==
  [op |-> op, p |-> p, aid |-> aid, updated |-> updated, revoked |-> revoked,
   pc |-> pc, i |-> i, found |-> found]

\* The calls with the references of the other calls moved after the entries
\* at the positions D were deleted; call k becomes c.
AfterDelete(k, c, D) ==
  [n \in 1..Len(calls) |->
     IF n = k THEN c
     ELSE [calls[n] EXCEPT !.found =
             [j \in 1..Len(calls[n].found) |-> Repoint(calls[n].found[j], D)]]]

\* grantPermission up to the await of findRoleByIdentifier.
StartRaceGrant(I) ==
  \E p \in I.principals, aid \in I.accessRoleIds :
    /\ Len(calls) < I.maxCalls
    /\ calls' = Append(calls, RaceCall("grantPermission", p, aid, << >>, << >>,
                                      "grant", 0, << >>))
    /\ lastOp' = [op |-> "startRaceGrant", changed |-> TRUE]
    /\ UNCHANGED <<aclStore, accessRoleStore, groupStore, userStore, promptStore,
                   promptGroupStore>>

\* grantPermission from the role check to the engine's grant.
ResumeRaceGrant ==
  \E k \in 1..Len(calls) :
    LET c == calls[k]
        g == grantPermission(aclStore, accessRoleStore, c.p[1], c.p[2],
                             RaceResource[1], RaceResource[2], c.aid, "u1", 0)
    IN /\ c.op = "grantPermission" /\ c.pc = "grant"
       /\ aclStore' = g.store
       /\ calls' = [calls EXCEPT ![k].pc = "done"]
       /\ lastOp' = [op |-> "resumeRaceGrant", changed |-> TRUE]
       /\ UNCHANGED <<accessRoleStore, groupStore, userStore, promptStore,
                      promptGroupStore>>

\* bulkUpdateResourcePermissions up to the await of AccessRole.find.
StartRaceBulk(I) ==
  \E updated \in I.bulkUpdated, revoked \in I.bulkRevoked :
    /\ Len(calls) < I.maxCalls
    /\ calls' = Append(calls, RaceCall("bulkUpdateResourcePermissions", <<USER, "u1">>,
                                      UNDEF, updated, revoked,
                                      IF updated # << >> THEN "update"
                                      ELSE IF revoked # << >> THEN "find" ELSE "done",
                                      1, << >>))
    /\ lastOp' = [op |-> "startRaceBulk", changed |-> TRUE]
    /\ UNCHANGED <<aclStore, accessRoleStore, groupStore, userStore, promptStore,
                   promptGroupStore>>

\* One iteration of the update loop, up to the await of its grant.
RaceBulkUpdate ==
  \E k \in 1..Len(calls) :
    LET c == calls[k]
        acc0 == [store |-> aclStore, granted |-> << >>, revoked |-> << >>,
                 errors |-> << >>]
        acc1 == BulkUpdateOne(acc0, c.updated[c.i],
                              findRolesByResourceType(accessRoleStore, RaceResource[1]),
                              RaceResource[1], RaceResource[2], "u1", 0)
    IN /\ c.op = "bulkUpdateResourcePermissions" /\ c.pc = "update"
       /\ aclStore' = acc1.store
       /\ calls' = [calls EXCEPT ![k] =
            IF c.i < Len(c.updated) THEN [c EXCEPT !.i = c.i + 1]
            ELSE IF c.revoked # << >> THEN [c EXCEPT !.pc = "find", !.i = 1]
            ELSE [c EXCEPT !.pc = "done"]]
       /\ lastOp' = [op |-> "raceBulkUpdate", changed |-> TRUE]
       /\ UNCHANGED <<accessRoleStore, groupStore, userStore, promptStore,
                      promptGroupStore>>

\* One iteration of the revoke loop up to the await of findOneAndDelete: the
\* entry findOneAclEntry will return is found.
RaceBulkFind ==
  \E k \in 1..Len(calls) :
    LET c == calls[k]
        i == FirstIndex(aclStore, TupleFilter(c.revoked[c.i].type, c.revoked[c.i].id,
                                              RaceResource[1], RaceResource[2]))
    IN /\ c.op = "bulkUpdateResourcePermissions" /\ c.pc = "find"
       /\ calls' = [calls EXCEPT ![k] = [c EXCEPT !.pc = "delete", !.found = << i >>]]
       /\ lastOp' = [op |-> "raceBulkFind", changed |-> TRUE]
       /\ UNCHANGED <<aclStore, accessRoleStore, groupStore, userStore, promptStore,
                      promptGroupStore>>

\* findOneAndDeleteAclEntry after its await: aclStore.delete(entry._id).
RaceBulkDelete ==
  \E k \in 1..Len(calls) :
    LET c == calls[k]
        D == {c.found[1]} \ {0}
    IN /\ c.op = "bulkUpdateResourcePermissions" /\ c.pc = "delete"
       /\ aclStore' = DeleteIds(aclStore, Len(aclStore), D)
       /\ calls' = AfterDelete(k,
            IF c.i < Len(c.revoked)
              THEN [c EXCEPT !.pc = "find", !.i = c.i + 1, !.found = << >>]
              ELSE [c EXCEPT !.pc = "done", !.found = << >>], D)
       /\ lastOp' = [op |-> "raceBulkDelete", changed |-> TRUE]
       /\ UNCHANGED <<accessRoleStore, groupStore, userStore, promptStore,
                      promptGroupStore>>

\* removeAllPermissions up to the await of deleteManyAclEntries.
StartRemoveAll(I) ==
  /\ Len(calls) < I.maxCalls
  /\ calls' = Append(calls, RaceCall("removeAllPermissions", <<USER, "u1">>, UNDEF,
                       << >>, << >>, "await", 0,
                       FoundIds(aclStore, [resourceType |-> RaceResource[1],
                                           resourceId |-> RaceResource[2]])))
  /\ lastOp' = [op |-> "startRemoveAll", changed |-> TRUE]
  /\ UNCHANGED <<aclStore, accessRoleStore, groupStore, userStore, promptStore,
                 promptGroupStore>>

\* deleteManyAclEntries after its await.  The references found are kept, set
\* to 0, in the finished call.
ResumeRemoveAll ==
  \E k \in 1..Len(calls) :
    LET c == calls[k]
        D == {c.found[j] : j \in 1..Len(c.found)} \ {0}
    IN /\ c.op = "removeAllPermissions" /\ c.pc = "await"
       /\ aclStore' = DeleteIds(aclStore, Len(aclStore), D)
       /\ calls' = AfterDelete(k,
            [c EXCEPT !.pc = "done",
                      !.found = [j \in 1..Len(c.found) |-> Repoint(c.found[j], D)]], D)
       /\ lastOp' = [op |-> "resumeRemoveAll", changed |-> TRUE]
       /\ UNCHANGED <<accessRoleStore, groupStore, userStore, promptStore,
                      promptGroupStore>>

RaceInputs ==
  [ principals |-> { <<USER, "u1">>, <<USER, "u2">> },
    accessRoleIds |-> {"agent_viewer", "agent_editor"},
    bulkUpdated |-> { << >>,
                      << BulkPrincipal(<<USER, "u1">>, "agent_editor") >>,
                      << BulkPrincipal(<<USER, "u1">>, "agent_viewer"),
                         BulkPrincipal(<<USER, "u2">>, "agent_viewer") >> },
    bulkRevoked |-> { << >>, << BulkPrincipal(<<USER, "u2">>, UNDEF) >> },
    maxCalls |-> MaxCalls ]

\* The registry is seeded before the calls are made.
NextRace ==
  \/ calls = << >> /\ SeedDefaultRoles
  \/ StartRaceGrant(RaceInputs)
  \/ ResumeRaceGrant
  \/ StartRaceBulk(RaceInputs)
  \/ RaceBulkUpdate
  \/ RaceBulkFind
  \/ RaceBulkDelete
  \/ StartRemoveAll(RaceInputs)
  \/ ResumeRemoveAll

SpecRace == Init /\ [][NextRace]_vars

\* One call run alone on a store: the store it leaves.
RaceRunAlone(c, store) ==
  CASE c.op = "grantPermission" ->
         grantPermission(store, accessRoleStore, c.p[1], c.p[2],
                         RaceResource[1], RaceResource[2], c.aid, "u1", 0).store
    [] c.op = "bulkUpdateResourcePermissions" ->
         bulkUpdateResourcePermissions(store, accessRoleStore, RaceResource[1],
                                       RaceResource[2], c.updated, c.revoked, "u1", 0).store
    [] OTHER ->
         removeAllPermissions(store, RaceResource[1], RaceResource[2]).store

\* The store the calls leave when run one after the other in the given order
\* from the empty store.
RECURSIVE RaceRunInOrder(_, _, _)
RaceRunInOrder(order, i, store) ==
  IF i > Len(calls) THEN store
  ELSE RaceRunInOrder(order, i + 1, RaceRunAlone(calls[order[i]], store))

====
